---- MODULE Spec2Model ----
(***************************************************************************)
(* A model of the MEGA parallel halo finder (core/kdhalofinder_mpi.py and  *)
(* core/utilities.py): the union-find friends-of-friends pass, the         *)
(* cross-rank stitching of spatial halos, the phase-space refinement of a  *)
(* candidate halo and the master/worker loop that dispatches the tasks.    *)
(*                                                                         *)
(* Arrays are functions over 0..n-1, dictionaries are functions whose      *)
(* DOMAIN is the set of keys, and floating point quantities are kept as    *)
(* exact integers or integer ratios in fixed units.                        *)
(***************************************************************************)
EXTENDS Integers, Sequences, FiniteSets, TLC

VARIABLES
    \* ---- one call of find_halos / find_subhalos / find_phase_space_halos
    fof_in,      \* the call's inputs: kind, positions, cell, box
    query,       \* the neighbour lists still to be walked (iter(query))
    fof,         \* the locals: part_haloids, assigned_parts, linked_halos_dict,
                 \* final_halo_ids, ihaloid (and whether an exception was raised)
    pass2,       \* the keys the second loop has still to visit
    fof_pc,      \* "first" | "second" | "done"
    fof_hist     \* history: the particles each ID was opened with, and whether
                 \* a neighbour list held a particle already labelled -2

fof_vars == <<fof_in, query, fof, pass2, fof_pc, fof_hist>>

VARIABLES
    \* ---- rank 0 of hosthalofinder after the spatial search, and combine_tasks
    conf,                  \* the run's parameters: ini_vlcoeff, nnodes, npart, ...
    collected_results,     \* what comm.gather returned: one dictionary per rank
    results,               \* the collected spatial halos; inside combine_tasks
                           \* the connected components still to be numbered
    ct_pc,                 \* "graph" | "loop" | "unique" | "done"
    halo_pids,             \* task key -> particle IDs of a host candidate
    vlcoeffs,              \* task key -> velocity linking coefficient
    spatial_part_haloids,  \* particle -> (spatial host ID, spatial subhalo ID)
    newtaskID,             \* the next task ID
    unique_haloids         \* the IDs of the stitched halos

ct_vars == <<conf, collected_results, results, ct_pc, halo_pids, vlcoeffs, spatial_part_haloids,
             newtaskID, unique_haloids>>

VARIABLES
    \* ---- the phase-space stage of hosthalofinder: rank 0 ...
    mpc,                   \* "combine" | "loop" | "gather"
    halo_tasks,            \* the task keys (kind, ID) waiting to be sent
    subhalo_pids,          \* task key -> particle IDs, kinds 2 and 3
    sub_vlcoeffs,          \* task key -> velocity linking coefficient, kind 3
    newSpatialSubID,       \* the next dense IDs
    newPhaseID,
    newPhaseSubID,
    closed_workers,        \* the workers whose EXIT has arrived
    phase_part_haloids,    \* particle -> (host ID, subhalo ID)
    haloID_dict,           \* (task, component) -> dense host ID
    subhaloID_dict,        \* (task, component) -> dense subhalo ID
    \* ---- ... the workers, ranks 1..size-1 ...
    wpc,                   \* rank -> "send_ready" | "recv" | "closed"
    results_dict,          \* rank -> task key -> the host records of the task
    sub_results_dict,      \* rank -> task key -> the subhalo records of the task
    \* ---- ... and the messages in flight, in sending order per sender
    to_master,             \* rank -> the messages the rank sent to rank 0
    to_worker,             \* rank -> the messages rank 0 sent to the rank
    \* ---- observation: the sub-components of 10 or more particles that the
    \* friends-of-friends passes of all tasks have produced so far
    seen_comps,
    \* ---- observation: the phase-space passes the tasks have run and the
    \* evaluations of the refinement loop's condition
    seen_passes

ph_vars == <<mpc, halo_tasks, subhalo_pids, sub_vlcoeffs, newSpatialSubID,
             newPhaseID, newPhaseSubID, closed_workers, phase_part_haloids,
             haloID_dict, subhaloID_dict, wpc, results_dict, sub_results_dict,
             to_master, to_worker, seen_comps, seen_passes>>

VARIABLES
    \* ---- the spatial search of hosthalofinder: the first master/worker loop
    nodes,                 \* cell -> the particle IDs decomp_nodes put in it
    tasks,                 \* rank 0: the cells not yet sent to a worker
    rank_results,          \* rank -> the worker's results dictionary
    thisRank_parts         \* rank -> the particles of the cells the worker ran

sp_vars == <<nodes, tasks, rank_results, thisRank_parts>>

VARIABLES
    \* ---- one call of a function of utilities.py on its own
    call_pc,               \* "idle" | "called" | "returned"
    call_in,               \* the arguments of the call
    call_out               \* what the call returned

call_vars == <<call_pc, call_in, call_out>>

VARIABLES
    \* ---- the arrays rank 0 sets up for writing after the gather
    nsubhalos              \* dense host ID -> the number of its subhalos

out_vars == <<nsubhalos>>

vars == <<fof_vars, ct_vars, ph_vars, sp_vars, call_vars, out_vars>>

-----------------------------------------------------------------------------
(* Bounds of the model *)

\* the halo size threshold: halos of fewer particles are discarded
MinPart == 10

\* particles of an exhaustively enumerated friends-of-friends input
FofNPart == 4
\* largest coordinate of such a particle (positions are 0..FofMaxCoord)
FofMaxCoord == 3
\* particles of the snapshot whose spatial halos combine_tasks stitches
CtNPart == 22
\* the longest halo a second rank reports across the first rank's two halos
CtMaxBridge == 5
\* the most workers (ranks other than 0) of a run of the phase-space stage
MaxWorkers == 2
\* the most particles and the most requested cells of a domain decomposition
DecompMaxNPart == 8
DecompMaxCells == 6
\* the most particles of a halo whose energy is computed on its own
EnergyMaxNPart == 6
\* the most particles of a halo that is wrapped on its own, and its box
WrapMaxNPart == 3
WrapBoxsize == 6

-----------------------------------------------------------------------------
(* Helpers *)

Min(S) == CHOOSE x \in S : \A y \in S : x <= y
Max(S) == CHOOSE x \in S : \A y \in S : x >= y
Abs(x) == IF x < 0 THEN -x ELSE x

EmptyMap == [k \in {} |-> {}]
MapPut(m, k, v) == [x \in (DOMAIN m) \cup {k} |-> IF x = k THEN v ELSE m[x]]
MapDel(m, k) == [x \in (DOMAIN m) \ {k} |-> m[x]]

\* F applied to the value of e, which is evaluated once
With(e, F(_)) == CHOOSE y \in {F(x) : x \in {e}} : TRUE

\* the integers of S in ascending order: each stands after the smaller ones
SortedSeq(S) ==
    With(S, LAMBDA T :
        <<>> \o [i \in 1..Cardinality(T) |->
                    CHOOSE m \in T : Cardinality({x \in T : x < m}) = i - 1])

-----------------------------------------------------------------------------
(* The union-find friends-of-friends pass                                  *)

\* tree.query_ball_point in one dimension: the indexed points within r of x,
\* with the periodic image when the tree was built with a boxsize (box > 0)
query_ball_point(pos, x, r, box) ==
    {q \in DOMAIN pos :
        LET d == Abs(pos[q] - x)
        IN  IF box > 0 THEN (d <= r \/ box - d <= r) ELSE d <= r}

\* (mutant) find_phase_space_halos takes -1 for the label of a halo
IsUnassignedBelowMinusOne(kind, id) ==
    IF kind = "find_phase_space_halos" THEN id < -1 ELSE id = -1

\* part_haloids[query_part_inds] == -1   (find_halos, find_subhalos)
\* phase_part_haloids[query_part_inds] < 0   (find_phase_space_halos)
IsUnassigned(kind, id) ==
    IF kind = "find_phase_space_halos" THEN id < 0 ELSE id = -1

\* uni_cont_halos != -1   (find_halos, find_subhalos);  >= 0  (phase space)
IsContained(kind, id) ==
    IF kind = "find_phase_space_halos" THEN id >= 0 ELSE id # -1

NewParts(kind, st, query_part_inds) ==
    {q \in query_part_inds : IsUnassigned(kind, st.part_haloids[q])}

UniContHalos(kind, st, query_part_inds) ==
    {h \in {st.part_haloids[q] : q \in query_part_inds} : IsContained(kind, h)}

\* (mutant) the test for a single particle halo is left out
BranchWithoutSingle(kind, st, query_part_inds) ==
    LET new_parts == NewParts(kind, st, query_part_inds)
    IN  IF query_part_inds = {} /\ kind # "find_phase_space_halos" THEN "assert"
        ELSE IF Cardinality(new_parts) = Cardinality(query_part_inds) THEN "open"
        ELSE "link"

\* which branch of the first loop a neighbour list takes
Branch(kind, st, query_part_inds) ==
    LET new_parts == NewParts(kind, st, query_part_inds)
    IN  IF query_part_inds = {} /\ kind # "find_phase_space_halos" THEN "assert"
        ELSE IF Cardinality(new_parts) = 1 /\ Cardinality(query_part_inds) = 1
        THEN "single"
        ELSE IF Cardinality(new_parts) = Cardinality(query_part_inds) THEN "open"
        ELSE "link"

FOFLocals(npart) ==
    [part_haloids      |-> [p \in 0..npart-1 |-> -1],
     assigned_parts    |-> EmptyMap,
     linked_halos_dict |-> EmptyMap,
     final_halo_ids    |-> [i \in 0..npart-1 |-> -1],
     ihaloid           |-> -1,
     raised            |-> FALSE]

\* (mutant) only the IDs the query returned are linked, not the halos they
\* were linked with before
LinkedHalosReturnedOnly(st, uni_cont_halos) == uni_cont_halos

\* the linked halos of the IDs a query returned
LinkedHalos(st, uni_cont_halos) ==
    IF Cardinality(uni_cont_halos) = 1
    THEN st.linked_halos_dict[CHOOSE h \in uni_cont_halos : TRUE]
    ELSE UNION {st.linked_halos_dict[h] : h \in uni_cont_halos}

\* (mutant) the largest linked ID is made the final ID
FinalIDMax(linked_halos) == Max(linked_halos)

\* final_ID = min(linked_halos)
FinalID(linked_halos) == Min(linked_halos)

\* final_halo_ids[list(linked_halos)] = final_ID
SetFinalIDs(final_halo_ids, linked_halos, final_ID) ==
    [i \in DOMAIN final_halo_ids |->
        IF i \in linked_halos THEN final_ID ELSE final_halo_ids[i]]

\* the body of the first loop for one neighbour list
FirstPassStep(kind, st, query_part_inds) ==
    LET new_parts == NewParts(kind, st, query_part_inds)
        branch == Branch(kind, st, query_part_inds)
        uni_cont_halos == UniContHalos(kind, st, query_part_inds)
    IN  IF st.raised THEN st
        ELSE IF branch = "assert" THEN [st EXCEPT !.raised = TRUE]
        ELSE IF branch = "single" THEN
            [st EXCEPT !.part_haloids =
                [p \in DOMAIN @ |-> IF p \in new_parts THEN -2 ELSE @[p]]]
        ELSE IF branch = "open" THEN
            LET id == st.ihaloid + 1
            IN  [st EXCEPT
                    !.ihaloid = id,
                    !.part_haloids =
                        [p \in DOMAIN @ |-> IF p \in new_parts THEN id ELSE @[p]],
                    !.assigned_parts = MapPut(@, id, new_parts),
                    !.final_halo_ids = [@ EXCEPT ![id] = id],
                    !.linked_halos_dict = MapPut(@, id, {id})]
        ELSE IF uni_cont_halos = {} THEN
            \* 'continue' in find_phase_space_halos, min() of nothing elsewhere
            IF kind = "find_phase_space_halos" THEN st
            ELSE [st EXCEPT !.raised = TRUE]
        ELSE IF ~(uni_cont_halos \subseteq DOMAIN st.linked_halos_dict) THEN
            \* a returned ID that was never opened (-2): no linked halos to read
            [st EXCEPT !.raised = TRUE]
        ELSE
            LET linked_halos == LinkedHalos(st, uni_cont_halos)
                final_ID == FinalID(linked_halos)
            IN  [st EXCEPT
                    !.linked_halos_dict =
                        [h \in DOMAIN @ |->
                            IF h \in linked_halos THEN linked_halos ELSE @[h]],
                    !.final_halo_ids = SetFinalIDs(@, linked_halos, final_ID),
                    !.part_haloids =
                        [p \in DOMAIN @ |->
                            IF p \in new_parts THEN final_ID ELSE @[p]],
                    !.assigned_parts =
                        [@ EXCEPT ![final_ID] = @ \cup new_parts]]

\* the body of the second loop for one initial halo ID
SecondPassStep(st, halo_id) ==
    LET final_ID == st.final_halo_ids[halo_id]
        parts == st.assigned_parts[halo_id]
        moved == [st.assigned_parts EXCEPT ![final_ID] = @ \cup parts]
    IN  [st EXCEPT
            !.part_haloids =
                [p \in DOMAIN @ |-> IF p \in parts THEN final_ID ELSE @[p]],
            !.assigned_parts =
                IF halo_id # final_ID THEN MapDel(moved, halo_id) ELSE moved]

RECURSIVE FirstPass(_, _, _)
\* the loop over the query lists in order: over the first half of them, then
\* from the state that leaves over the second half
FirstPass(kind, st, q) ==
    IF q = <<>> THEN st
    ELSE IF Len(q) = 1 THEN FirstPassStep(kind, st, Head(q))
    ELSE With(FirstPass(kind, st, SubSeq(q, 1, Len(q) \div 2)),
              LAMBDA next : FirstPass(kind, next, SubSeq(q, Len(q) \div 2 + 1, Len(q))))

RECURSIVE SecondPass(_, _)
\* the loop over the keys in order, by halves as in FirstPass; a raised
\* KeyError ends it
SecondPass(st, keys) ==
    IF keys = <<>> \/ st.raised THEN st
    ELSE IF Len(keys) = 1 THEN SecondPassStep(st, Head(keys))
    ELSE With(SecondPass(st, SubSeq(keys, 1, Len(keys) \div 2)),
              LAMBDA next : SecondPass(next, SubSeq(keys, Len(keys) \div 2 + 1, Len(keys))))

\* list(assigned_parts.keys()): the keys in insertion order, the order in
\* which the IDs were opened
KeyList(st) == SortedSeq(DOMAIN st.assigned_parts)

\* a whole call: the per-particle IDs and the membership dictionary
FOFRun(kind, npart, q) ==
    With(q, LAMBDA lists :
        With(FirstPass(kind, FOFLocals(npart), lists),
             LAMBDA st : SecondPass(st, KeyList(st))))

-----------------------------------------------------------------------------
(* One call of the friends-of-friends pass as a state machine              *)

FofKinds == {"find_halos", "find_subhalos", "find_phase_space_halos"}

\* larger inputs, by the coordinate of each particle in array order: seven
\* particles on a chain of unit steps, walked so that three IDs are opened
\* before any two of them are linked; and two halos, one of them opened under
\* two IDs, beside a lone particle
ChainLayouts ==
    {<<0, 3, 6, 1, 5, 2, 4>>, <<0, 3, 6, 5, 1, 2, 4>>, <<6, 3, 0, 2, 4, 1, 5>>,
     <<0, 3, 1, 2, 5, 5, 7>>}

ZeroBased(s) == [p \in 0..Len(s)-1 |-> s[p + 1]]

FofPositions ==
    [0..FofNPart-1 -> 0..FofMaxCoord] \cup {ZeroBased(s) : s \in ChainLayouts}

\* the linking length of the call, in coordinate steps
FofLinkl == 1

\* the neighbour lists of a call: one per query point, in array order
QueryOf(in) ==
    [i \in 1..Len(in.cell) |->
        query_ball_point(in.pos, in.pos[in.cell[i]], FofLinkl, in.box)]

\* find_halos is handed the particles of one cell (consecutive IDs) and the
\* periodic tree of all particles; the other two index and walk their own halo
\* the side of the periodic box: the coordinates are 0..box-1
BoxOf(pos) ==
    IF DOMAIN pos = 0..FofNPart-1 THEN FofMaxCoord + 1
    ELSE Max({pos[p] : p \in DOMAIN pos}) + 1

FofInputs ==
    {[kind |-> k, pos |-> pos, cell |-> SortedSeq(DOMAIN pos), box |-> 0] :
        k \in FofKinds \ {"find_halos"}, pos \in FofPositions}
    \cup
    {[kind |-> "find_halos", pos |-> pos, cell |-> SortedSeq(lo..hi),
      box |-> BoxOf(pos)] :
        pos \in FofPositions, lo \in 0..FofNPart-1, hi \in 0..FofNPart-1}

WellFormedInput(in) ==
    /\ in.cell # <<>>
    /\ \A i \in 1..Len(in.cell) : in.cell[i] \in DOMAIN in.pos
    /\ in.kind # "find_halos" => Len(in.cell) = Cardinality(DOMAIN in.pos)

NPartOf(in) == Cardinality(DOMAIN in.pos)

NoHist == [opened |-> EmptyMap, hit_single |-> FALSE]

\* the phase-space stage has not started
PhIdle ==
    /\ mpc = "idle"
    /\ halo_tasks = {}
    /\ subhalo_pids = <<>>
    /\ sub_vlcoeffs = <<>>
    /\ newSpatialSubID = 0
    /\ newPhaseID = 0
    /\ newPhaseSubID = 0
    /\ closed_workers = 0
    /\ phase_part_haloids = <<>>
    /\ haloID_dict = <<>>
    /\ subhaloID_dict = <<>>
    /\ wpc = <<>>
    /\ results_dict = <<>>
    /\ sub_results_dict = <<>>
    /\ to_master = <<>>
    /\ to_worker = <<>>
    /\ seen_comps = {}
    /\ seen_passes = {}

\* the spatial search is not running
\* rank 0 has not set up the output arrays
OutIdle == nsubhalos = <<>>

\* no function is called on its own
CallIdle ==
    /\ call_pc = "idle"
    /\ call_in = <<>>
    /\ call_out = <<>>
    /\ OutIdle

SpIdle ==
    /\ nodes = <<>>
    /\ tasks = {}
    /\ rank_results = <<>>
    /\ thisRank_parts = <<>>

\* combine_tasks is not running
CtIdle ==
    /\ conf = <<>>
    /\ collected_results = <<>>
    /\ results = <<>>
    /\ ct_pc = "idle"
    /\ halo_pids = <<>>
    /\ vlcoeffs = <<>>
    /\ spatial_part_haloids = <<>>
    /\ newtaskID = 0
    /\ unique_haloids = {}

FofInit ==
    /\ CtIdle
    /\ PhIdle
    /\ SpIdle
    /\ CallIdle
    /\ OutIdle
    /\ fof_in \in {in \in FofInputs : WellFormedInput(in)}
    /\ query = QueryOf(fof_in)
    /\ fof = FOFLocals(NPartOf(fof_in))
    /\ pass2 = <<>>
    /\ fof_pc = "first"
    /\ fof_hist = NoHist

\* one iteration of: for query_part_inds in iter(query)
FofQueryStep ==
    /\ fof_pc = "first"
    /\ query # <<>>
    /\ LET nb == Head(query)
           br == Branch(fof_in.kind, fof, nb)
       IN  /\ fof' = FirstPassStep(fof_in.kind, fof, nb)
           /\ fof_hist' =
                [fof_hist EXCEPT
                    !.opened = IF br = "open"
                               THEN MapPut(@, fof.ihaloid + 1,
                                           NewParts(fof_in.kind, fof, nb))
                               ELSE @,
                    !.hit_single = @ \/ \E q \in nb : fof.part_haloids[q] = -2]
    /\ query' = Tail(query)
    /\ UNCHANGED <<fof_in, pass2, fof_pc>>
    /\ UNCHANGED <<out_vars, call_vars, ct_vars, ph_vars, sp_vars>>

\* the first loop is over: list(assigned_parts.keys())
FofStartSecond ==
    /\ fof_pc = "first"
    /\ query = <<>>
    /\ pass2' = KeyList(fof)
    /\ fof_pc' = "second"
    /\ UNCHANGED <<fof_in, query, fof, fof_hist>>
    /\ UNCHANGED <<out_vars, call_vars, ct_vars, ph_vars, sp_vars>>

\* one iteration of the second loop
FofSecondStep ==
    /\ fof_pc = "second"
    /\ pass2 # <<>>
    /\ ~fof.raised
    /\ fof' = SecondPassStep(fof, Head(pass2))
    /\ pass2' = Tail(pass2)
    /\ UNCHANGED <<fof_in, query, fof_pc, fof_hist>>
    /\ UNCHANGED <<out_vars, call_vars, ct_vars, ph_vars, sp_vars>>

\* return part_haloids, assigned_parts
FofReturn ==
    /\ fof_pc = "second"
    /\ pass2 = <<>> \/ fof.raised
    /\ fof_pc' = "done"
    /\ UNCHANGED <<fof_in, query, fof, pass2, fof_hist>>
    /\ UNCHANGED <<out_vars, call_vars, ct_vars, ph_vars, sp_vars>>

FofNext ==
    \/ FofQueryStep
    \/ FofStartSecond
    \/ FofSecondStep
    \/ FofReturn

SpecFOF == FofInit /\ [][FofNext]_vars

-----------------------------------------------------------------------------
(* utilities.combine_tasks: stitching the spatial halos of all ranks       *)

\* (mutant) only the first two particles of a halo are joined by an edge
to_edges_first_pair(l) ==
    LET it == SortedSeq(l)
    IN  {<<it[i], it[i + 1]>> : i \in 1..Len(it)-1} \cap {<<it[1], it[2]>>}

\* the edges joining each particle of a halo to the next one
to_edges(l) ==
    LET it == SortedSeq(l)
    IN  {<<it[i], it[i + 1]>> : i \in 1..Len(it)-1}

\* the graph whose nodes are particles and whose edges chain every halo
to_graph(l) ==
    [nodes |-> UNION l, edges |-> UNION {to_edges(part) : part \in l}]

\* the nodes of S and their neighbours
GraphStep(G, S) ==
    S \cup {e[2] : e \in {f \in G.edges : f[1] \in S}}
      \cup {e[1] : e \in {f \in G.edges : f[2] \in S}}

RECURSIVE GraphGrow(_, _, _)
\* the nodes within n edges of S: those within the first half of the steps,
\* then the rest of the steps from there unless nothing was added
GraphGrow(G, S, n) ==
    IF n = 0 THEN S
    ELSE IF n = 1 THEN GraphStep(G, S)
    ELSE With(GraphGrow(G, S, n \div 2),
              LAMBDA T : IF T = S THEN S ELSE GraphGrow(G, T, n - n \div 2))

\* networkx connected_components: the node sets of the graph's components,
\* each the nodes that a search from one of its nodes reaches
connected_components(G) ==
    With(G, LAMBDA H : {GraphGrow(H, {v}, Cardinality(H.nodes)) : v \in H.nodes})

\* results = [parts for parts in connected_components(G) if len(parts) >= 10]
StitchedHalos(result_values) ==
    {parts \in connected_components(to_graph(result_values)) :
        Cardinality(parts) >= MinPart}

\* spatial_part_haloids[parts, col] = id
SetColumn(arr, parts, col, id) ==
    [p \in DOMAIN arr |-> IF p \in parts THEN [arr[p] EXCEPT ![col] = id] ELSE arr[p]]

\* np.full((npart, 2), -2)
NoHaloIDs(npart) == [p \in 0..npart-1 |-> [c \in 0..1 |-> -2]]

\* np.unique(arr[:, col], return_counts=True), IDs of >= 10 particles, not -2
UniqueHaloIDs(arr, col) ==
    {id \in {arr[p][col] : p \in DOMAIN arr} :
        /\ Cardinality({p \in DOMAIN arr : arr[p][col] = id}) >= MinPart
        /\ id # -2}

\* the values of a dictionary
Values(m) == {m[k] : k \in DOMAIN m}
\* the elements of an array
Elems(a) == {a[i] : i \in DOMAIN a}

CtInputs ==
    {[ini_vlcoeff |-> 10, nnodes |-> n, npart |-> CtNPart] : n \in {2, 3}}

\* what the ranks gathered: rank 0 nothing, rank 1 a halo at each end of the
\* ID range, rank 2 nothing or a short halo anywhere
CtCollected ==
    {<<EmptyMap, (<<1, 0>> :> 0..a) @@ (<<1, 1>> :> b..(CtNPart - 1)), r2>> :
        a \in (MinPart - 2)..MinPart,
        b \in (CtNPart - MinPart - 1)..(CtNPart - MinPart + 1),
        r2 \in {EmptyMap} \cup
               {(<<2, 0>> :> c..d) : c \in 0..(CtNPart - 1), d \in 1..(CtNPart - 1)}}

WellFormedCollected(cr) ==
    /\ \A h \in Values(cr[2]) : Cardinality(h) >= 2
    /\ \A h \in Values(cr[3]) : Cardinality(h) >= 2 /\ Cardinality(h) <= CtMaxBridge
    /\ \A h1, h2 \in Values(cr[2]) : h1 # h2 => h1 \cap h2 = {}

RECURSIVE MergeDicts(_)
\* results = {k: v for d in collected_results for k, v in d.items()}
MergeDicts(ds) ==
    IF ds = <<>> THEN EmptyMap ELSE MergeDicts(SubSeq(ds, 1, Len(ds) - 1)) @@ ds[Len(ds)]

\* no friends-of-friends pass is running
FofIdle ==
    /\ fof_in = <<>>
    /\ query = <<>>
    /\ fof = <<>>
    /\ pass2 = <<>>
    /\ fof_pc = "idle"
    /\ fof_hist = <<>>

CtInit ==
    /\ FofIdle
    /\ PhIdle
    /\ SpIdle
    /\ CallIdle
    /\ OutIdle
    /\ conf \in CtInputs
    /\ collected_results \in {cr \in CtCollected : WellFormedCollected(cr)}
    /\ results = MergeDicts(collected_results)
    /\ ct_pc = "graph"
    /\ halo_pids = EmptyMap
    /\ vlcoeffs = EmptyMap
    /\ spatial_part_haloids = NoHaloIDs(conf.npart)
    /\ newtaskID = 0
    /\ unique_haloids = {}

\* results = set(results.values()); G = to_graph(results); the components of
\* 10 or more particles; newtaskID = nnodes
CtGraph ==
    /\ ct_pc = "graph"
    /\ ct_pc' = "loop"
    /\ results' = StitchedHalos(Values(results))
    /\ newtaskID' = conf.nnodes
    /\ UNCHANGED <<conf, collected_results, halo_pids, vlcoeffs, spatial_part_haloids, unique_haloids>>
    /\ UNCHANGED <<out_vars, call_vars, fof_vars, ph_vars, sp_vars>>

\* one iteration of: while len(results) > 0
CtPop ==
    /\ ct_pc = "loop"
    /\ \E parts \in results :
        /\ results' = results \ {parts}
        /\ halo_pids' = MapPut(halo_pids, <<1, newtaskID>>, SortedSeq(parts))
        /\ vlcoeffs' = MapPut(vlcoeffs, <<1, newtaskID>>, conf.ini_vlcoeff)
        /\ spatial_part_haloids' = SetColumn(spatial_part_haloids, parts, 0, newtaskID)
        /\ newtaskID' = newtaskID + 1
    /\ UNCHANGED <<conf, collected_results, ct_pc, unique_haloids>>
    /\ UNCHANGED <<out_vars, call_vars, fof_vars, ph_vars, sp_vars>>

\* the loop is over: the IDs given to 10 or more particles, and return
CtReturn ==
    /\ ct_pc = "loop"
    /\ results = {}
    /\ unique_haloids' = UniqueHaloIDs(spatial_part_haloids, 0)
    /\ ct_pc' = "done"
    /\ UNCHANGED <<conf, collected_results, results, halo_pids, vlcoeffs, spatial_part_haloids, newtaskID>>
    /\ UNCHANGED <<out_vars, call_vars, fof_vars, ph_vars, sp_vars>>

CtNext == CtGraph \/ CtPop \/ CtReturn

SpecCombine == CtInit /\ [][CtNext]_vars

-----------------------------------------------------------------------------
(* Properties of combine_tasks                                              *)

\* the spatial halos the workers produced
SpatialHalos == UNION {Values(collected_results[i]) : i \in DOMAIN collected_results}

RECURSIVE OverlapGrow(_)
\* the halos joined to a set of halos by chains of halos sharing a particle
OverlapGrow(S) ==
    LET T == S \cup {h \in SpatialHalos : \E g \in S : g \cap h # {}}
    IN  IF T = S THEN S ELSE OverlapGrow(T)

\* the connected components of the graph of halos that share a particle
OverlapComponents == {OverlapGrow({h}) : h \in SpatialHalos}

\* the member sets combine_tasks returned
MergedHalos == {Elems(halo_pids[k]) : k \in DOMAIN halo_pids}

\* the returned halos are disjoint and numbered from nnodes without a gap
CtDisjointAndNumbered(ncomp) ==
    /\ \A k1, k2 \in DOMAIN halo_pids :
         k1 # k2 => Elems(halo_pids[k1]) \cap Elems(halo_pids[k2]) = {}
    /\ DOMAIN halo_pids = {<<1, id>> : id \in conf.nnodes..(conf.nnodes + ncomp - 1)}
    /\ newtaskID = conf.nnodes + ncomp

\* C10 (as stated): combine_tasks returns exactly one merged halo for every
\* connected component of the graph of worker halos sharing a particle, its
\* members the union of the component's halos, the merged halos pairwise
\* disjoint and numbered with distinct task IDs from nnodes on.
C10_OneHaloPerComponent ==
    ct_pc = "done" =>
        /\ MergedHalos = {UNION c : c \in OverlapComponents}
        /\ CtDisjointAndNumbered(Cardinality(OverlapComponents))

\* the components whose union has at least MinPart particles
LargeComponents == {c \in OverlapComponents : Cardinality(UNION c) >= MinPart}

\* C10 (amended): combine_tasks returns exactly one merged halo for every
\* connected component of the graph of worker halos sharing a particle whose
\* union has at least 10 particles, and none for a smaller one; its members
\* are the union of the component's halos, the merged halos are pairwise
\* disjoint and are numbered with distinct task IDs from nnodes on.
C10_OneHaloPerLargeComponent ==
    ct_pc = "done" =>
        /\ MergedHalos = {UNION c : c \in LargeComponents}
        /\ CtDisjointAndNumbered(Cardinality(LargeComponents))

\* combine_tasks returned two halos, one of them the union of two worker
\* halos neither of which has 10 particles
C10_Witness ==
    /\ ct_pc = "done"
    /\ Cardinality(DOMAIN halo_pids) = 2
    /\ \E c \in LargeComponents :
         /\ Cardinality(c) = 2
         /\ \A h \in c : Cardinality(h) < MinPart
         /\ UNION c \in MergedHalos

-----------------------------------------------------------------------------
(* Properties of the friends-of-friends pass                               *)

\* the particles the walk links directly: a query point and each particle of
\* its neighbour list
FofQueryPoints == {fof_in.cell[i] : i \in 1..Len(fof_in.cell)}

FofBall(p) == query_ball_point(fof_in.pos, fof_in.pos[p], FofLinkl, fof_in.box)

FofLinked(p, q) ==
    \/ p \in FofQueryPoints /\ q \in FofBall(p)
    \/ q \in FofQueryPoints /\ p \in FofBall(q)

RECURSIVE FofGrow(_)
FofGrow(S) ==
    LET T == S \cup {q \in DOMAIN fof_in.pos : \E p \in S : FofLinked(p, q)}
    IN  IF T = S THEN S ELSE FofGrow(T)

\* the connected component of p in the linking graph
FofComponent(p) == FofGrow({p})

FofComponents == {FofComponent(p) : p \in DOMAIN fof_in.pos}

FofDone == fof_pc = "done"

\* the initial IDs opened for particles of the set C
OpenedFor(C) == {c \in DOMAIN fof_hist.opened : fof_hist.opened[c] \cap C # {}}

\* C6: after the second pass every particle of a connected component with an
\* opened ID carries the minimum of the initial IDs opened in that component,
\* and that minimum is the component's key in the returned dictionary.
C6_FinalIDIsMinimum ==
    FofDone =>
        /\ ~fof.raised
        /\ \A C \in FofComponents :
              OpenedFor(C) # {} =>
                  /\ \A p \in C : fof.part_haloids[p] = Min(OpenedFor(C))
                  /\ Min(OpenedFor(C)) \in DOMAIN fof.assigned_parts
                  /\ fof.assigned_parts[Min(OpenedFor(C))] = C
        /\ \A k \in DOMAIN fof.assigned_parts :
              \E C \in FofComponents : OpenedFor(C) # {} /\ k = Min(OpenedFor(C))

\* a component in which three IDs were opened, or two, has been relabelled
C6_Witness ==
    /\ FofDone
    /\ \E C \in FofComponents : Cardinality(OpenedFor(C)) >= 3

FofAllQueried == fof_in.kind \in {"find_subhalos", "find_phase_space_halos"}

\* C7: when every particle is a query point, two particles end with the same
\* non-negative ID exactly when a chain of links joins them, and the returned
\* sets are exactly the connected components of two or more particles.
C7_LabelsAreComponents ==
    (FofDone /\ FofAllQueried) =>
        /\ \A p, q \in DOMAIN fof_in.pos :
              (fof.part_haloids[p] >= 0 /\ fof.part_haloids[p] = fof.part_haloids[q])
                  <=> (q \in FofComponent(p) /\ Cardinality(FofComponent(p)) >= 2)
        /\ {fof.assigned_parts[k] : k \in DOMAIN fof.assigned_parts}
              = {C \in FofComponents : Cardinality(C) >= 2}
        /\ Cardinality(DOMAIN fof.assigned_parts)
              = Cardinality({C \in FofComponents : Cardinality(C) >= 2})

C7_Witness ==
    /\ FofDone /\ FofAllQueried
    /\ Cardinality(DOMAIN fof.assigned_parts) >= 2
    /\ \E C \in FofComponents : Cardinality(OpenedFor(C)) >= 2
    /\ \E p \in DOMAIN fof_in.pos : fof.part_haloids[p] = -2

\* C8: a query point whose neighbour list is only itself ends labelled -2 and
\* in no membership set; a particle labelled -2 has no other particle within
\* the radius; and no neighbour list holds a particle already labelled -2.
C8_Singletons ==
    /\ ~fof.raised
    /\ ~fof_hist.hit_single
    /\ \A p \in DOMAIN fof_in.pos :
          fof.part_haloids[p] = -2 =>
              /\ FofBall(p) = {p}
              /\ \A k \in DOMAIN fof.assigned_parts : p \notin fof.assigned_parts[k]
    /\ fof_pc # "first" =>
          \A p \in FofQueryPoints :
              FofBall(p) = {p} =>
                  /\ fof.part_haloids[p] = -2
                  /\ \A k \in DOMAIN fof.assigned_parts : p \notin fof.assigned_parts[k]

C8_Witness ==
    /\ FofDone
    /\ \E p \in FofQueryPoints : FofBall(p) = {p} /\ fof.part_haloids[p] = -2
    /\ DOMAIN fof.assigned_parts # {}

-----------------------------------------------------------------------------
(* Phase-space refinement: get_real_host_halos and get_real_sub_halos      *)
(*                                                                          *)
(* Velocity linking coefficients are counted in fifths (0.8 is 4, 1.0 is   *)
(* 5), velocities in units of vlinkl_halo_indp * pmass^(1/3), positions in *)
(* whole multiples of the linking lengths, so that every comparison the    *)
(* code makes in floating point is made here exactly, on sixth powers.     *)
(* Energies are exact fractions [num, den] in units of pmass / (1 + z).    *)

\* the coefficient 1.0, in fifths
AlphaOne == 5

\* the hard-coded floor of the refinement loop, 0.8, in fifths
RefineFloor == 4

\* arr[inds] for a set of 0-based indices, in ascending order of index
Take(arr, inds) ==
    LET s == SortedSeq(inds) IN [k \in 1..Len(s) |-> arr[s[k] + 1]]

\* (mutant) the particles at the lower boundary are moved by half a box
wrap_haloHalf(halo_poss, boxsize) ==
    LET max_part_pos == Max(Elems(halo_poss))
    IN  [i \in DOMAIN halo_poss |->
            IF 2 * (max_part_pos - halo_poss[i]) > boxsize
            THEN halo_poss[i] + boxsize \div 2 ELSE halo_poss[i]]

\* halo_poss[np.where(sep > 0.5 * boxsize)] += boxsize
wrap_halo(halo_poss, boxsize) ==
    LET max_part_pos == Max(Elems(halo_poss))
    IN  [i \in DOMAIN halo_poss |->
            IF 2 * (max_part_pos - halo_poss[i]) > boxsize
            THEN halo_poss[i] + boxsize ELSE halo_poss[i]]

\* (5 * vlinkl)^6 for vlinkl = vlcoeff * vlinkl_halo_indp * pmass^(1/3) *
\* npart^(1/3), times boost = ((1600 / 200)^(1/6))^6 = 8 where the code
\* multiplies by that factor
Vlinkl6(vlcoeff, npart, boost) == (vlcoeff ^ 6) * (npart ^ 2) * boost

\* (dx / linkl)^2 + (dv / vlinkl)^2 <= 2: within sqrt(2) in the scaled space
PhaseNear(dx, dv, linkl, vl6) ==
    LET xs == Abs(dx) \div linkl
    IN  /\ xs * xs <= 2
        /\ (5 ^ 6) * (dv ^ 6) <= ((2 - xs * xs) ^ 3) * vl6

\* halo_tree.query_ball_point(query_phases, r=np.sqrt(2)): one list per particle
phase_query(poss, vels, linkl, vl6) ==
    [i \in DOMAIN poss |->
        {j - 1 : j \in {k \in DOMAIN poss :
                          PhaseNear(poss[i] - poss[k], vels[i] - vels[k], linkl, vl6)}}]

find_phase_space_halos(poss, vels, linkl, vl6) ==
    FOFRun("find_phase_space_halos", Len(poss), phase_query(poss, vels, linkl, vl6))

\* np.unique(part_haloids, return_counts=True): the number of particles of an ID
CountOf(part_haloids, id) ==
    Cardinality({p \in DOMAIN part_haloids : part_haloids[p] = id})

\* (mutant) the size filter asks for more than 10 particles
LargeIDsAboveTen(part_haloids) ==
    {id \in {part_haloids[p] : p \in DOMAIN part_haloids} :
        CountOf(part_haloids, id) > MinPart /\ id >= 0}

\* (mutant) the size filter is not applied
LargeIDsUnfiltered(part_haloids) ==
    {id \in {part_haloids[p] : p \in DOMAIN part_haloids} : id >= 0}

\* the IDs given to 10 or more particles, without the negative null values
LargeIDs(part_haloids) ==
    {id \in {part_haloids[p] : p \in DOMAIN part_haloids} :
        CountOf(part_haloids, id) >= MinPart /\ id >= 0}

RECURSIVE SortByCount(_, _)
\* unique_iter_haloids[np.argsort(iter_counts)]: ascending count, equal
\* counts in ascending order of ID
SortByCount(ids, part_haloids) ==
    IF ids = {} THEN <<>>
    ELSE With(CHOOSE a \in ids : \A b \in ids :
                \/ CountOf(part_haloids, a) < CountOf(part_haloids, b)
                \/ (CountOf(part_haloids, a) = CountOf(part_haloids, b) /\ a <= b),
              LAMBDA least : <<least>> \o SortByCount(ids \ {least}, part_haloids))

RECURSIVE SumSeq(_)
\* np.sum: the sum of the two halves of the array
SumSeq(a) ==
    With(a, LAMBDA b :
        IF Len(b) = 0 THEN 0
        ELSE IF Len(b) = 1 THEN b[1]
        ELSE SumSeq(SubSeq(b, 1, Len(b) \div 2))
             + SumSeq(SubSeq(b, Len(b) \div 2 + 1, Len(b))))

\* exact fractions with positive denominators
RatLeq(a, b) == a.num * b.den <= b.num * a.den
RatGeq(a, b) == a.num * b.den >= b.num * a.den
RatSub(a, b) == [num |-> a.num * b.den - b.num * a.den, den |-> a.den * b.den]

\* KE = 0.5 * halo_npart * pmass * np.var(halo_vels) / (1 + redshift)
kinetic(halo_vels, halo_npart) ==
    LET s1 == SumSeq(halo_vels)
        s2 == SumSeq([i \in DOMAIN halo_vels |-> halo_vels[i] * halo_vels[i]])
    IN  [num |-> halo_npart * s2 - s1 * s1, den |-> 2 * halo_npart]

\* rij2 = np.sum(seps * seps, axis=-1): the matrix of squared separations
get_seps_lm(halo_poss, halo_npart) ==
    [ij \in (1..halo_npart) \X (1..halo_npart) |->
        (halo_poss[ij[1]] - halo_poss[ij[2]]) * (halo_poss[ij[1]] - halo_poss[ij[2]])]

\* A[mask] for mask = r[:, None] <= r: the entries on and above the diagonal
upper_tri_masking(A) == {ij \in DOMAIN A : ij[1] <= ij[2]}

\* np.sqrt of a perfect square
ISqrt(x) == CHOOSE r \in 0..x : r * r = x

RECURSIVE Product(_)
Product(S) ==
    With(S, LAMBDA T :
        IF T = {} THEN 1
        ELSE With(CHOOSE y \in T : TRUE, LAMBDA x : x * Product(T \ {x})))

\* GE = G * pmass ** 2 * np.sum(1 / np.sqrt(rij_2 + soft ** 2)), with the unit
\* factors G * pmass * h * (1 + z)^2 / 3.086e+19 = gunit[1] / gunit[2]
grav(rij2, mask, soft, gunit) ==
    LET roots == {ISqrt(rij2[ij] + soft * soft) : ij \in mask}
        den   == Product(roots)
        terms == [r \in roots |->
                    Cardinality({ij \in mask : ISqrt(rij2[ij] + soft * soft) = r})
                    * (den \div r)]
    IN  [num |-> gunit[1] * SumSeq([k \in 1..Cardinality(roots) |->
                                       terms[SortedSeq(roots)[k]]]),
         den |-> gunit[2] * den]

GCD(a, b) == Max({d \in 1..Max({a, b, 1}) : a % d = 0 /\ b % d = 0})

\* the sum of two fractions, in lowest terms
RatAdd(a, b) ==
    With([num |-> a.num * b.den + b.num * a.den, den |-> a.den * b.den],
         LAMBDA r : With(GCD(r.num, r.den),
                         LAMBDA g : [num |-> r.num \div g, den |-> r.den \div g]))

\* invsqu_dist = np.sum(1 / np.sqrt(rij2 + soft ** 2)) for row i of
\* get_grav_hm: sep = halo_poss[:i, :] - halo_poss[i, :], i counted from 0
RowInvSquDist(halo_poss, i, soft) ==
    LET rij2 == [j \in 1..i |->
                    (halo_poss[j] - halo_poss[i + 1]) * (halo_poss[j] - halo_poss[i + 1])]
        roots == {ISqrt(rij2[j] + soft * soft) : j \in 1..i}
        den == Product(roots)
    IN  [num |-> SumSeq([j \in 1..i |-> den \div ISqrt(rij2[j] + soft * soft)]),
         den |-> den]

RECURSIVE GravRows(_, _, _, _, _)
\* for i in range(1, halo_npart): GE += G * pmass ** 2 * invsqu_dist
GravRows(GE, i, halo_poss, halo_npart, soft) ==
    IF i >= halo_npart THEN GE
    ELSE With(RatAdd(GE, RowInvSquDist(halo_poss, i, soft)),
              LAMBDA next : GravRows(next, i + 1, halo_poss, halo_npart, soft))

\* the row-at-a-time gravitational energy, with the unit factors of grav
get_grav_hm(halo_poss, halo_npart, soft, gunit) ==
    With(GravRows([num |-> 0, den |-> 1], 1, halo_poss, halo_npart, soft),
         LAMBDA GE : [num |-> gunit[1] * GE.num, den |-> gunit[2] * GE.den])

\* halo_energy_calc_exact for fewer than 10^4 particles
halo_energy_calc(halo_poss, halo_vels, halo_npart, soft, gunit) ==
    LET KE   == kinetic(halo_vels, halo_npart)
        rij2 == get_seps_lm(halo_poss, halo_npart)
        GE   == grav(rij2, upper_tri_masking(rij2), soft, gunit)
    IN  [halo_energy |-> RatSub(KE, GE), KE |-> KE, GE |-> GE]

\* (mutant) the flag does not look at the energies
IsRealIgnoringEnergy(KE, GE, vlcoeff, min_vlcoeff) == vlcoeff >= min_vlcoeff

\* if KE / GE <= 1 and vlcoeff >= min_vlcoeff: real = True, else real = False
IsReal(KE, GE, vlcoeff, min_vlcoeff) == RatLeq(KE, GE) /\ vlcoeff >= min_vlcoeff

\* while KE / GE >= 1 and halo_npart >= 10 and new_vlcoeff >= 0.8
KeepRefining(it) ==
    /\ RatGeq(it.KE, it.GE)
    /\ it.halo_npart >= MinPart
    /\ it.new_vlcoeff >= RefineFloor

\* (mutant) the component that is continued is stored as an extra task too
ExtraIDsWithFirst(unique_iter_haloids) == unique_iter_haloids

\* for iID in unique_iter_haloids[1:]
ExtraIDs(unique_iter_haloids) == Tail(unique_iter_haloids)

\* what a refinement pass saw: the members and energies of a sub-component
\* (observation only, the code keeps no such record)
Seen(sim_pids, poss, vels, c) ==
    With(halo_energy_calc(poss, vels, Len(sim_pids), c.soft, c.gunit),
         LAMBDA e : [pids |-> Elems(sim_pids), KE |-> e.KE, GE |-> e.GE])

\* what is kept of a phase-space pass ("first": the pass of the whole task,
\* "pass": a pass of the while loop) or of an evaluation of the loop's
\* condition ("check"): the component, the passes of the loop it has been
\* through, the coefficient, its size and energies, the condition's value
\* (observation only, the code keeps no such record)
Traced(what, pID, k, alpha, npart, KE, GE, again) ==
    [what |-> what, pID |-> pID, k |-> k, alpha |-> alpha, npart |-> npart,
     KE |-> KE, GE |-> GE, again |-> again]

\* the while loop's body after its friends-of-friends pass has returned result
RefineStepWith(it, c, new_vlcoeff, result) ==
    LET iter_part_haloids == result.part_haloids
        iter_assigned_parts == result.assigned_parts
    IN  With(SortByCount(LargeIDs(iter_part_haloids), iter_part_haloids),
             LAMBDA unique_iter_haloids :
        IF unique_iter_haloids # <<>>
        THEN LET iterID == unique_iter_haloids[1]
                 extras == ExtraIDs(unique_iter_haloids)
                 newIDs == [k \in 1..Len(extras) |-> it.newID_iter - 100 * (k - 1)]
                 phalo_pids == iter_assigned_parts[iterID]
                 poss == wrap_halo(Take(it.iter_halo_poss, phalo_pids), c.boxsize)
                 vels == Take(it.iter_halo_vels, phalo_pids)
             IN  With(halo_energy_calc(poss, vels, Cardinality(phalo_pids),
                                       c.soft, c.gunit),
                      LAMBDA e :
                 [it EXCEPT
                    !.new_vlcoeff = new_vlcoeff,
                    !.k = it.k + 1,
                    !.trace = it.trace \cup
                        {Traced("pass", it.pID, it.k + 1, new_vlcoeff, it.halo_npart,
                                it.KE, it.GE, TRUE)},
                    !.extra_halo_pids =
                        [k \in DOMAIN it.extra_halo_pids \cup Elems(newIDs) |->
                            IF k \in DOMAIN it.extra_halo_pids
                            THEN it.extra_halo_pids[k]
                            ELSE Take(it.iter_sim_halo_pids,
                                      iter_assigned_parts[
                                        extras[CHOOSE j \in DOMAIN newIDs : newIDs[j] = k]])],
                    !.iter_vlcoeffs =
                        [k \in DOMAIN it.iter_vlcoeffs \cup Elems(newIDs) |->
                            IF k \in DOMAIN it.iter_vlcoeffs
                            THEN it.iter_vlcoeffs[k]
                            ELSE new_vlcoeff - c.decrement],
                    !.newID_iter = it.newID_iter - 100 * Len(extras),
                    !.iter_sim_halo_pids = Take(it.iter_sim_halo_pids, phalo_pids),
                    !.iter_halo_poss = poss,
                    !.iter_halo_vels = vels,
                    !.halo_npart = Cardinality(phalo_pids),
                    !.halo_energy = e.halo_energy,
                    !.KE = e.KE,
                    !.GE = e.GE,
                    !.seen = it.seen \cup
                        {Seen(Take(it.iter_sim_halo_pids, iter_assigned_parts[id]),
                              Take(it.iter_halo_poss, iter_assigned_parts[id]),
                              Take(it.iter_halo_vels, iter_assigned_parts[id]), c) :
                           id \in Elems(unique_iter_haloids)}])
        ELSE [it EXCEPT
                !.new_vlcoeff = new_vlcoeff,
                !.k = it.k + 1,
                !.trace = it.trace \cup
                    {Traced("pass", it.pID, it.k + 1, new_vlcoeff, it.halo_npart,
                            it.KE, it.GE, TRUE)},
                !.halo_npart = 0])

\* one iteration of the while loop; it holds the loop's variables and the
\* extra candidates of the call so far
RefineStep(it, c, linkl) ==
    With(find_phase_space_halos(it.iter_halo_poss, it.iter_halo_vels, linkl,
                                Vlinkl6(it.new_vlcoeff - c.decrement, it.halo_npart, 1)),
         LAMBDA result : RefineStepWith(it, c, it.new_vlcoeff - c.decrement, result))

RECURSIVE RefineLoop(_, _, _)
RefineLoop(it, c, linkl) ==
    With([it EXCEPT
            !.trace = @ \cup {Traced("check", it.pID, it.k, it.new_vlcoeff,
                                     it.halo_npart, it.KE, it.GE, KeepRefining(it))}],
         LAMBDA checked :
    IF KeepRefining(it)
    THEN With(RefineStep(checked, c, linkl), LAMBDA next : RefineLoop(next, c, linkl))
    ELSE checked)

\* halo_poss.mean(axis=0), as a fraction
MeanOf(halo_poss) == [num |-> SumSeq(halo_poss), den |-> Len(halo_poss)]

\* a fraction modulo a whole number, in [0, boxsize)
RatMod(a, boxsize) == [num |-> a.num % (boxsize * a.den), den |-> a.den]

\* mean_halo_pos = halo_poss.mean(axis=0) % boxsize on the coordinates that
\* were centred twice before the loop (full_halo_poss -= mean_halo_pos, and
\* halo_poss -= mean_halo_pos for the component): the mean of the members
\* relative to the mean of the component they were refined from
mean_halo_pos(halo_poss, centred_on, boxsize) ==
    RatMod(RatSub(MeanOf(halo_poss), MeanOf(centred_on)), boxsize)

\* the body of: for pID in unique_phase_haloids. acc holds results,
\* pid_results, the extra candidates and newID_iter of the call
RefineComponent(acc, pID, phase_assigned_parts, full, c, linkl, vlcoeff) ==
    IF phase_assigned_parts[pID] = {} THEN acc
    ELSE
    LET phalo_pids == phase_assigned_parts[pID]
        sim_halo_pids == Take(full.pids, phalo_pids)
        halo_poss == wrap_halo(Take(full.poss, phalo_pids), c.boxsize)
        halo_vels == Take(full.vels, phalo_pids)
        halo_npart == Cardinality(phalo_pids)
    IN  With(halo_energy_calc(halo_poss, halo_vels, halo_npart, c.soft, c.gunit),
             LAMBDA e :
        With(RefineLoop(
                 [new_vlcoeff |-> vlcoeff,
                  iter_sim_halo_pids |-> sim_halo_pids,
                  iter_halo_poss |-> halo_poss,
                  iter_halo_vels |-> halo_vels,
                  halo_npart |-> halo_npart,
                  halo_energy |-> e.halo_energy, KE |-> e.KE, GE |-> e.GE,
                  extra_halo_pids |-> acc.extra_halo_pids,
                  iter_vlcoeffs |-> acc.iter_vlcoeffs,
                  newID_iter |-> acc.newID_iter,
                  pID |-> pID, k |-> 0, trace |-> acc.trace,
                  seen |-> acc.seen \cup
                           {[pids |-> Elems(sim_halo_pids), KE |-> e.KE, GE |-> e.GE]}],
                 c, linkl),
             LAMBDA it :
        LET carried == [acc EXCEPT !.extra_halo_pids = it.extra_halo_pids,
                                   !.iter_vlcoeffs = it.iter_vlcoeffs,
                                   !.newID_iter = it.newID_iter,
                                   !.trace = it.trace,
                                   !.seen = it.seen]
        IN  IF it.halo_npart >= MinPart
            THEN [carried EXCEPT
                    !.results = MapPut(acc.results, pID,
                        [pids |-> it.iter_sim_halo_pids,
                         npart |-> Len(it.iter_sim_halo_pids),
                         real |-> IsReal(it.KE, it.GE, vlcoeff, c.min_vlcoeff),
                         mean_halo_pos |-> mean_halo_pos(it.iter_halo_poss, halo_poss,
                                                         c.boxsize),
                         halo_energy |-> it.halo_energy, KE |-> it.KE, GE |-> it.GE]),
                    !.pid_results = MapPut(acc.pid_results, pID, it.iter_sim_halo_pids)]
            ELSE carried))

RECURSIVE RefineComponents(_, _, _, _, _, _, _)
RefineComponents(acc, ids, phase_assigned_parts, full, c, linkl, vlcoeff) ==
    IF ids = <<>> THEN acc
    ELSE With(RefineComponent(acc, Head(ids), phase_assigned_parts, full, c,
                              linkl, vlcoeff),
              LAMBDA next : RefineComponents(next, Tail(ids), phase_assigned_parts,
                                             full, c, linkl, vlcoeff))

\* the common text of get_real_host_halos and get_real_sub_halos; boost is 1
\* for hosts and 8 for subhalos, whose first pass widens vlinkl
get_real_halos(thisTask, pids, pos, vel, c, linkl, vlcoeff, boost) ==
    With(wrap_halo(pos, c.boxsize), LAMBDA full_halo_poss :
    With(find_phase_space_halos(full_halo_poss, vel, linkl,
                                Vlinkl6(vlcoeff, Len(pids), boost)),
         LAMBDA result :
    With(RefineComponents(
            [results |-> EmptyMap, pid_results |-> EmptyMap,
             extra_halo_pids |-> EmptyMap, iter_vlcoeffs |-> EmptyMap,
             newID_iter |-> -9, seen |-> {},
             trace |-> {Traced("first", -1, 0, vlcoeff, Len(pids),
                               [num |-> 0, den |-> 1], [num |-> 0, den |-> 1], FALSE)}],
            SortedSeq(LargeIDs(result.part_haloids)), result.assigned_parts,
            [pids |-> pids, poss |-> full_halo_poss, vels |-> vel],
            c, linkl, vlcoeff),
         LAMBDA acc :
    [thisTask |-> thisTask, results |-> acc.results,
     extra_halo_pids |-> acc.extra_halo_pids, iter_vlcoeffs |-> acc.iter_vlcoeffs,
     pid_results |-> acc.pid_results, seen |-> acc.seen,
     trace |-> {[what |-> t.what, pID |-> t.pID, k |-> t.k, alpha |-> t.alpha,
                 npart |-> t.npart, KE |-> t.KE, GE |-> t.GE, again |-> t.again,
                 task |-> thisTask, vlcoeff |-> vlcoeff] : t \in acc.trace}])))

get_real_host_halos(thisTask, pids, pos, vel, c, vlcoeff) ==
    get_real_halos(thisTask, pids, pos, vel, c, c.linkl, vlcoeff, 1)

get_real_sub_halos(thisTask, pids, pos, vel, c, vlcoeff) ==
    get_real_halos(thisTask, pids, pos, vel, c, c.sub_linkl, vlcoeff, 8)

\* (mutant) the indices into the host halo are kept as they are
LocalPids(host_pids, parts) == SortedSeq(parts)

\* halo_pids[list(assignedsub_parts[halo])]: from indices into the host halo
\* to simulation particle IDs
SimulationPids(host_pids, parts) == Take(host_pids, parts)

\* find_subhalos on the positions of a host, then the members' IDs
get_sub_halos(thisTask, host_pids, halo_pos, sub_linkl) ==
    With(FOFRun("find_subhalos", Len(halo_pos),
                [i \in DOMAIN halo_pos |->
                   {j - 1 : j \in query_ball_point(halo_pos, halo_pos[i], sub_linkl, 0)}]),
         LAMBDA found :
    [thisTask |-> thisTask,
     subhalo_pids |-> [halo \in DOMAIN found.assigned_parts |->
                          SimulationPids(host_pids, found.assigned_parts[halo])]])

-----------------------------------------------------------------------------
(* The two gravitational energy paths of halo_energy_calc_exact on the     *)
(* same particles                                                          *)

\* coordinates whose softened separations have whole square roots
EnergyCoords == {0, 4}
EnergySoft == 3

\* halos of up to EnergyMaxNPart particles
EnergyInputs ==
    UNION {[1..n -> EnergyCoords] : n \in 1..EnergyMaxNPart}

EnergyInit ==
    /\ FofIdle
    /\ CtIdle
    /\ PhIdle
    /\ nodes = <<>>
    /\ tasks = {}
    /\ rank_results = <<>>
    /\ thisRank_parts = <<>>
    /\ call_pc = "called"
    /\ call_in \in EnergyInputs
    /\ call_out = <<>>
    /\ OutIdle

\* both branches of: if halo_npart < 10000
EnergyCall ==
    /\ call_pc = "called"
    /\ \E rij2 \in {get_seps_lm(call_in, Len(call_in))} :
          call_out' = [rij_2 |-> upper_tri_masking(rij2),
                       lm |-> grav(rij2, upper_tri_masking(rij2), EnergySoft, <<3, 11>>),
                       hm |-> get_grav_hm(call_in, Len(call_in), EnergySoft, <<3, 11>>)]
    /\ call_pc' = "returned"
    /\ UNCHANGED <<call_in, out_vars, fof_vars, ct_vars, ph_vars, sp_vars>>

SpecEnergy == EnergyInit /\ [][EnergyCall]_vars

-----------------------------------------------------------------------------
(* wrap_halo on its own                                                    *)

\* halos of up to WrapMaxNPart particles anywhere in the box
WrapInputs ==
    {[halo_poss |-> poss, boxsize |-> WrapBoxsize] :
        poss \in UNION {[1..n -> 0..(WrapBoxsize - 1)] : n \in 1..WrapMaxNPart}}

WrapInit ==
    /\ FofIdle
    /\ CtIdle
    /\ PhIdle
    /\ nodes = <<>>
    /\ tasks = {}
    /\ rank_results = <<>>
    /\ thisRank_parts = <<>>
    /\ call_pc = "called"
    /\ call_in \in WrapInputs
    /\ call_out = <<>>
    /\ OutIdle

\* halo_poss = utilities.wrap_halo(halo_poss, boxsize, domean=False)
WrapCall ==
    /\ call_pc = "called"
    /\ call_out' = wrap_halo(call_in.halo_poss, call_in.boxsize)
    /\ call_pc' = "returned"
    /\ UNCHANGED <<call_in, out_vars, fof_vars, ct_vars, ph_vars, sp_vars>>

SpecWrap == WrapInit /\ [][WrapCall]_vars

-----------------------------------------------------------------------------
(* The phase-space stage of hosthalofinder: rank 0 stitches the spatial    *)
(* halos and then hands tasks to the workers until all of them have exited *)

\* the workers of the run
Workers == 1..(conf.size - 1)

\* pos[halo_pids, :] and vel[halo_pids, :]
PosOf(pids) == [k \in DOMAIN pids |-> conf.pos[pids[k] + 1]]
VelOf(pids) == [k \in DOMAIN pids |-> conf.vel[pids[k] + 1]]

\* comm.send from and to a worker: the message joins the sender's queue
Send(chan, w, msg) == [chan EXCEPT ![w] = Append(@, msg)]
\* a worker's DONE and the READY that opens its next turn of the loop
SendDoneReady(chan, w, msg) == [chan EXCEPT ![w] = Append(Append(@, msg), [tag |-> "READY"])]
Received(chan, w) == [chan EXCEPT ![w] = Tail(@)]
Arrived(chan, w, tag) == chan[w] # <<>> /\ Head(chan[w]).tag = tag

RECURSIVE Reverse(_)
Reverse(a) == With(a, LAMBDA b : IF b = <<>> THEN <<>> ELSE Reverse(Tail(b)) \o <<Head(b)>>)

\* halo_tasks = set(zip(np.full(len(unique_haloids), 1), unique_haloids)) and
\* the counters of the loop
MasterSetup ==
    /\ mpc = "combine"
    /\ ct_pc = "done"
    /\ halo_tasks' = {<<1, id>> : id \in unique_haloids}
    /\ newSpatialSubID' = 0
    /\ newPhaseID' = 0
    /\ newPhaseSubID' = 0
    /\ closed_workers' = 0
    /\ haloID_dict' = EmptyMap
    /\ subhaloID_dict' = EmptyMap
    /\ subhalo_pids' = EmptyMap
    /\ sub_vlcoeffs' = EmptyMap
    /\ mpc' = "loop"
    /\ UNCHANGED <<phase_part_haloids, wpc, results_dict, sub_results_dict,
                   to_master, to_worker, seen_comps, seen_passes>>
    /\ UNCHANGED <<out_vars, call_vars, fof_vars, ct_vars, sp_vars>>

\* the loop runs: while closed_workers < num_workers
MasterLoops == mpc = "loop" /\ closed_workers < conf.size - 1

\* READY from w while tasks are waiting: pop one and send it with its data
MasterReadyStart(w) ==
    /\ MasterLoops
    /\ Arrived(to_master, w, "READY")
    /\ halo_tasks # {}
    /\ \E halo_task \in halo_tasks :
        /\ halo_tasks' = halo_tasks \ {halo_task}
        /\ IF halo_task[1] = 1
           THEN /\ to_worker' = Send(to_worker, w,
                        [tag |-> "START", task |-> halo_task,
                         pids |-> halo_pids[halo_task], vlcoeff |-> vlcoeffs[halo_task]])
                /\ halo_pids' = MapDel(halo_pids, halo_task)
                /\ vlcoeffs' = MapDel(vlcoeffs, halo_task)
                /\ UNCHANGED <<subhalo_pids, sub_vlcoeffs>>
           ELSE IF halo_task[1] = 2
           THEN /\ to_worker' = Send(to_worker, w,
                        [tag |-> "START", task |-> halo_task,
                         pids |-> subhalo_pids[halo_task]])
                /\ subhalo_pids' = MapDel(subhalo_pids, halo_task)
                /\ UNCHANGED <<halo_pids, vlcoeffs, sub_vlcoeffs>>
           ELSE /\ to_worker' = Send(to_worker, w,
                        [tag |-> "START", task |-> halo_task,
                         pids |-> subhalo_pids[halo_task],
                         vlcoeff |-> sub_vlcoeffs[halo_task]])
                /\ subhalo_pids' = MapDel(subhalo_pids, halo_task)
                /\ sub_vlcoeffs' = MapDel(sub_vlcoeffs, halo_task)
                /\ UNCHANGED <<halo_pids, vlcoeffs>>
    /\ to_master' = Received(to_master, w)
    /\ UNCHANGED <<mpc, newSpatialSubID, newPhaseID, newPhaseSubID, closed_workers,
                   phase_part_haloids, haloID_dict, subhaloID_dict, wpc,
                   results_dict, sub_results_dict, seen_comps, seen_passes>>
    /\ UNCHANGED <<conf, collected_results, results, ct_pc, spatial_part_haloids,
                   newtaskID, unique_haloids>>
    /\ UNCHANGED <<out_vars, call_vars, fof_vars, sp_vars>>

\* (mutant) EXIT is sent although tasks are left
MasterReadyExitEarly(w) ==
    /\ MasterLoops
    /\ Arrived(to_master, w, "READY")
    /\ to_worker' = Send(to_worker, w, [tag |-> "EXIT"])
    /\ to_master' = Received(to_master, w)
    /\ UNCHANGED <<mpc, halo_tasks, subhalo_pids, sub_vlcoeffs, newSpatialSubID,
                   newPhaseID, newPhaseSubID, closed_workers, phase_part_haloids,
                   haloID_dict, subhaloID_dict, wpc, results_dict,
                   sub_results_dict, seen_comps, seen_passes>>
    /\ UNCHANGED <<out_vars, call_vars, fof_vars, ct_vars, sp_vars>>

\* (mutant) the READY is taken and no EXIT is sent
MasterReadyExitSilent(w) ==
    /\ MasterLoops
    /\ Arrived(to_master, w, "READY")
    /\ halo_tasks = {}
    /\ to_master' = Received(to_master, w)
    /\ UNCHANGED <<mpc, halo_tasks, subhalo_pids, sub_vlcoeffs, newSpatialSubID,
                   newPhaseID, newPhaseSubID, closed_workers, phase_part_haloids,
                   haloID_dict, subhaloID_dict, wpc, results_dict,
                   sub_results_dict, to_worker, seen_comps, seen_passes>>
    /\ UNCHANGED <<out_vars, call_vars, fof_vars, ct_vars, sp_vars>>

\* READY from w while no task is waiting: send EXIT
MasterReadyExit(w) ==
    /\ MasterLoops
    /\ Arrived(to_master, w, "READY")
    /\ halo_tasks = {}
    /\ to_worker' = Send(to_worker, w, [tag |-> "EXIT"])
    /\ to_master' = Received(to_master, w)
    /\ UNCHANGED <<mpc, halo_tasks, subhalo_pids, sub_vlcoeffs, newSpatialSubID,
                   newPhaseID, newPhaseSubID, closed_workers, phase_part_haloids,
                   haloID_dict, subhaloID_dict, wpc, results_dict,
                   sub_results_dict, seen_comps, seen_passes>>
    /\ UNCHANGED <<out_vars, call_vars, fof_vars, ct_vars, sp_vars>>

\* the rank 0 variables the DONE branches assign, as one record
MasterLocals ==
    [halo_tasks |-> halo_tasks, halo_pids |-> halo_pids, vlcoeffs |-> vlcoeffs,
     subhalo_pids |-> subhalo_pids, sub_vlcoeffs |-> sub_vlcoeffs,
     spatial_part_haloids |-> spatial_part_haloids,
     phase_part_haloids |-> phase_part_haloids,
     haloID_dict |-> haloID_dict, subhaloID_dict |-> subhaloID_dict,
     newtaskID |-> newtaskID, newSpatialSubID |-> newSpatialSubID,
     newPhaseID |-> newPhaseID, newPhaseSubID |-> newPhaseSubID]

SetMasterLocals(m) ==
    /\ halo_tasks' = m.halo_tasks
    /\ halo_pids' = m.halo_pids
    /\ vlcoeffs' = m.vlcoeffs
    /\ subhalo_pids' = m.subhalo_pids
    /\ sub_vlcoeffs' = m.sub_vlcoeffs
    /\ spatial_part_haloids' = m.spatial_part_haloids
    /\ phase_part_haloids' = m.phase_part_haloids
    /\ haloID_dict' = m.haloID_dict
    /\ subhaloID_dict' = m.subhaloID_dict
    /\ newtaskID' = m.newtaskID
    /\ newSpatialSubID' = m.newSpatialSubID
    /\ newPhaseID' = m.newPhaseID
    /\ newPhaseSubID' = m.newPhaseSubID

\* (mutant) no subhalo task is created for the record
HostRecordDoneNoSubs(m, haloID, res, post_halo_pids, findsubs) ==
    [m EXCEPT
       !.phase_part_haloids = SetColumn(@, Elems(post_halo_pids[res]), 0, m.newPhaseID),
       !.haloID_dict = MapPut(@, <<haloID, res>>, m.newPhaseID),
       !.newtaskID = @ + 1,
       !.newPhaseID = @ + 1]

\* (mutant) the subhalo task is created whatever findsubs says
HostRecordDoneAlwaysSubs(m, haloID, res, post_halo_pids, findsubs) ==
    LET sub == [m EXCEPT
                  !.halo_tasks = @ \cup {<<2, m.newtaskID>>},
                  !.subhalo_pids = MapPut(@, <<2, m.newtaskID>>, post_halo_pids[res])]
    IN  [sub EXCEPT
           !.phase_part_haloids = SetColumn(@, Elems(post_halo_pids[res]), 0, m.newPhaseID),
           !.haloID_dict = MapPut(@, <<haloID, res>>, m.newPhaseID),
           !.newtaskID = @ + 1,
           !.newPhaseID = @ + 1]

\* (mutant) the host ID counter is not incremented
HostRecordDoneSameID(m, haloID, res, post_halo_pids, findsubs) ==
    LET sub == IF findsubs
               THEN [m EXCEPT
                       !.halo_tasks = @ \cup {<<2, m.newtaskID>>},
                       !.subhalo_pids = MapPut(@, <<2, m.newtaskID>>, post_halo_pids[res])]
               ELSE m
    IN  [sub EXCEPT
           !.phase_part_haloids = SetColumn(@, Elems(post_halo_pids[res]), 0, m.newPhaseID),
           !.haloID_dict = MapPut(@, <<haloID, res>>, m.newPhaseID),
           !.newtaskID = @ + 1]

\* the body of: for res in post_halo_pids (a host task is done)
HostRecordDone(m, haloID, res, post_halo_pids, findsubs) ==
    LET sub == IF findsubs
               THEN [m EXCEPT
                       !.halo_tasks = @ \cup {<<2, m.newtaskID>>},
                       !.subhalo_pids = MapPut(@, <<2, m.newtaskID>>, post_halo_pids[res])]
               ELSE m
    IN  [sub EXCEPT
           !.phase_part_haloids = SetColumn(@, Elems(post_halo_pids[res]), 0, m.newPhaseID),
           !.haloID_dict = MapPut(@, <<haloID, res>>, m.newPhaseID),
           !.newtaskID = @ + 1,
           !.newPhaseID = @ + 1]

\* (mutant) the task ID is not incremented after an extra candidate
HostExtraDoneSameID(m, key, extra_halo_pids, extra_vlcoeffs) ==
    [m EXCEPT
       !.halo_tasks = @ \cup {<<1, m.newtaskID>>},
       !.halo_pids = MapPut(@, <<1, m.newtaskID>>, extra_halo_pids[key]),
       !.vlcoeffs = MapPut(@, <<1, m.newtaskID>>, extra_vlcoeffs[key])]

\* (mutant) the extra candidate is not queued
HostExtraDoneDropped(m, key, extra_halo_pids, extra_vlcoeffs) ==
    [m EXCEPT !.newtaskID = @ + 1]

\* the body of: for key in extra_halo_pids (a host task is done)
HostExtraDone(m, key, extra_halo_pids, extra_vlcoeffs) ==
    [m EXCEPT
       !.halo_tasks = @ \cup {<<1, m.newtaskID>>},
       !.halo_pids = MapPut(@, <<1, m.newtaskID>>, extra_halo_pids[key]),
       !.vlcoeffs = MapPut(@, <<1, m.newtaskID>>, extra_vlcoeffs[key]),
       !.newtaskID = @ + 1]

\* (mutant) the data of the subhalo task are stored and the task is not queued
SpatialSubDoneNotQueued(m, halo, task_subhalo_pids, ini_vlcoeff) ==
    [m EXCEPT
       !.subhalo_pids = MapPut(@, <<3, m.newtaskID>>, task_subhalo_pids[halo]),
       !.sub_vlcoeffs = MapPut(@, <<3, m.newtaskID>>, ini_vlcoeff),
       !.spatial_part_haloids =
            SetColumn(@, Elems(task_subhalo_pids[halo]), 1, m.newSpatialSubID),
       !.newtaskID = @ + 1,
       !.newSpatialSubID = @ + 1]

\* the body of: for halo in task_subhalo_pids (a spatial subhalo task is done)
SpatialSubDone(m, halo, task_subhalo_pids, ini_vlcoeff) ==
    [m EXCEPT
       !.halo_tasks = @ \cup {<<3, m.newtaskID>>},
       !.subhalo_pids = MapPut(@, <<3, m.newtaskID>>, task_subhalo_pids[halo]),
       !.sub_vlcoeffs = MapPut(@, <<3, m.newtaskID>>, ini_vlcoeff),
       !.spatial_part_haloids =
            SetColumn(@, Elems(task_subhalo_pids[halo]), 1, m.newSpatialSubID),
       !.newtaskID = @ + 1,
       !.newSpatialSubID = @ + 1]

\* (mutant) the subhalo ID is written to the host column
SubRecordDoneHostColumn(m, subhaloID, res, post_subhalo_pids) ==
    [m EXCEPT
       !.phase_part_haloids =
            SetColumn(@, Elems(post_subhalo_pids[res]), 0, m.newPhaseSubID),
       !.subhaloID_dict = MapPut(@, <<subhaloID, res>>, m.newPhaseSubID),
       !.newtaskID = @ + 1,
       !.newPhaseSubID = @ + 1]

\* the body of: for res in post_subhalo_pids (a phase-space subhalo task is done)
SubRecordDone(m, subhaloID, res, post_subhalo_pids) ==
    [m EXCEPT
       !.phase_part_haloids =
            SetColumn(@, Elems(post_subhalo_pids[res]), 1, m.newPhaseSubID),
       !.subhaloID_dict = MapPut(@, <<subhaloID, res>>, m.newPhaseSubID),
       !.newtaskID = @ + 1,
       !.newPhaseSubID = @ + 1]

\* the body of: for key in extra_subhalo_pids
SubExtraDone(m, key, extra_subhalo_pids, extra_sub_vlcoeffs) ==
    [m EXCEPT
       !.halo_tasks = @ \cup {<<3, m.newtaskID>>},
       !.subhalo_pids = MapPut(@, <<3, m.newtaskID>>, extra_subhalo_pids[key]),
       !.sub_vlcoeffs = MapPut(@, <<3, m.newtaskID>>, extra_sub_vlcoeffs[key]),
       !.newtaskID = @ + 1]

RECURSIVE HostRecordsDone(_, _, _, _, _)
HostRecordsDone(m, haloID, keys, post_halo_pids, findsubs) ==
    IF keys = <<>> THEN m
    ELSE With(HostRecordDone(m, haloID, Head(keys), post_halo_pids, findsubs),
              LAMBDA next : HostRecordsDone(next, haloID, Tail(keys), post_halo_pids,
                                            findsubs))

RECURSIVE HostExtrasDone(_, _, _, _)
HostExtrasDone(m, keys, extra_halo_pids, extra_vlcoeffs) ==
    IF keys = <<>> THEN m
    ELSE With(HostExtraDone(m, Head(keys), extra_halo_pids, extra_vlcoeffs),
              LAMBDA next : HostExtrasDone(next, Tail(keys), extra_halo_pids,
                                           extra_vlcoeffs))

RECURSIVE SpatialSubsDone(_, _, _, _)
SpatialSubsDone(m, keys, task_subhalo_pids, ini_vlcoeff) ==
    IF keys = <<>> THEN m
    ELSE With(SpatialSubDone(m, Head(keys), task_subhalo_pids, ini_vlcoeff),
              LAMBDA next : SpatialSubsDone(next, Tail(keys), task_subhalo_pids,
                                            ini_vlcoeff))

RECURSIVE SubRecordsDone(_, _, _, _)
SubRecordsDone(m, subhaloID, keys, post_subhalo_pids) ==
    IF keys = <<>> THEN m
    ELSE With(SubRecordDone(m, subhaloID, Head(keys), post_subhalo_pids),
              LAMBDA next : SubRecordsDone(next, subhaloID, Tail(keys),
                                           post_subhalo_pids))

RECURSIVE SubExtrasDone(_, _, _, _)
SubExtrasDone(m, keys, extra_subhalo_pids, extra_sub_vlcoeffs) ==
    IF keys = <<>> THEN m
    ELSE With(SubExtraDone(m, Head(keys), extra_subhalo_pids, extra_sub_vlcoeffs),
              LAMBDA next : SubExtrasDone(next, Tail(keys), extra_subhalo_pids,
                                          extra_sub_vlcoeffs))

\* the keys of a dictionary in insertion order: components by ascending ID,
\* extra candidates by descending key (-9, -109, ...)
RecordKeys(d) == SortedSeq(DOMAIN d)
ExtraKeys(d) == Reverse(SortedSeq(DOMAIN d))

MasterDoneFrame ==
    /\ UNCHANGED <<mpc, closed_workers, wpc, results_dict, sub_results_dict,
                   to_worker, seen_comps, seen_passes>>
    /\ UNCHANGED <<conf, collected_results, results, ct_pc, unique_haloids>>
    /\ UNCHANGED <<out_vars, call_vars, fof_vars, sp_vars>>

\* DONE of a host task (kind 1)
MasterDoneHost(w) ==
    /\ MasterLoops
    /\ Arrived(to_master, w, "DONE")
    /\ Head(to_master[w]).task[1] = 1
    /\ LET halo_results == Head(to_master[w])
       IN  \E m1 \in {HostRecordsDone(MasterLocals, halo_results.task,
                                      RecordKeys(halo_results.post_halo_pids),
                                      halo_results.post_halo_pids, conf.findsubs)} :
           \E m2 \in {HostExtrasDone(m1, ExtraKeys(halo_results.extra_halo_pids),
                                     halo_results.extra_halo_pids,
                                     halo_results.extra_vlcoeffs)} :
               SetMasterLocals(m2)
    /\ to_master' = Received(to_master, w)
    /\ MasterDoneFrame

\* DONE of a spatial subhalo task (kind 2)
MasterDoneSpatialSub(w) ==
    /\ MasterLoops
    /\ Arrived(to_master, w, "DONE")
    /\ Head(to_master[w]).task[1] = 2
    /\ LET halo_results == Head(to_master[w])
       IN  \E m1 \in {SpatialSubsDone(MasterLocals,
                                      RecordKeys(halo_results.subhalo_pids),
                                      halo_results.subhalo_pids, conf.ini_vlcoeff)} :
               SetMasterLocals(m1)
    /\ to_master' = Received(to_master, w)
    /\ MasterDoneFrame

\* DONE of a phase-space subhalo task (kind 3)
MasterDonePhaseSub(w) ==
    /\ MasterLoops
    /\ Arrived(to_master, w, "DONE")
    /\ Head(to_master[w]).task[1] = 3
    /\ LET halo_results == Head(to_master[w])
       IN  \E m1 \in {SubRecordsDone(MasterLocals, halo_results.task,
                                     RecordKeys(halo_results.post_halo_pids),
                                     halo_results.post_halo_pids)} :
           \E m2 \in {SubExtrasDone(m1, ExtraKeys(halo_results.extra_halo_pids),
                                    halo_results.extra_halo_pids,
                                    halo_results.extra_vlcoeffs)} :
               SetMasterLocals(m2)
    /\ to_master' = Received(to_master, w)
    /\ MasterDoneFrame

\* (mutant) one EXIT closes two workers
MasterExitCountsTwice(w) ==
    /\ MasterLoops
    /\ Arrived(to_master, w, "EXIT")
    /\ closed_workers' = closed_workers + 2
    /\ to_master' = Received(to_master, w)
    /\ UNCHANGED <<mpc, halo_tasks, subhalo_pids, sub_vlcoeffs, newSpatialSubID,
                   newPhaseID, newPhaseSubID, phase_part_haloids, haloID_dict,
                   subhaloID_dict, wpc, results_dict, sub_results_dict,
                   to_worker, seen_comps, seen_passes>>
    /\ UNCHANGED <<out_vars, call_vars, fof_vars, ct_vars, sp_vars>>

\* EXIT from w
MasterExit(w) ==
    /\ MasterLoops
    /\ Arrived(to_master, w, "EXIT")
    /\ closed_workers' = closed_workers + 1
    /\ to_master' = Received(to_master, w)
    /\ UNCHANGED <<mpc, halo_tasks, subhalo_pids, sub_vlcoeffs, newSpatialSubID,
                   newPhaseID, newPhaseSubID, phase_part_haloids, haloID_dict,
                   subhaloID_dict, wpc, results_dict, sub_results_dict,
                   to_worker, seen_comps, seen_passes>>
    /\ UNCHANGED <<out_vars, call_vars, fof_vars, ct_vars, sp_vars>>

\* closed_workers has reached num_workers: on to the gather, and to the
\* arrays set up for writing, nsubhalos = np.zeros(nhalo); the loop over
\* sub_results_dict that would count into it is commented out
MasterLoopEnd ==
    /\ mpc = "loop"
    /\ closed_workers >= conf.size - 1
    /\ mpc' = "gather"
    /\ nsubhalos' = [halo_id \in 0..(newPhaseID - 1) |-> 0]
    /\ UNCHANGED <<halo_tasks, subhalo_pids, sub_vlcoeffs, newSpatialSubID,
                   newPhaseID, newPhaseSubID, closed_workers, phase_part_haloids,
                   haloID_dict, subhaloID_dict, wpc, results_dict,
                   sub_results_dict, to_master, to_worker, seen_comps, seen_passes>>
    /\ UNCHANGED <<call_vars, fof_vars, ct_vars, sp_vars>>

\* what every worker action leaves alone
WorkerFrame ==
    /\ UNCHANGED <<mpc, halo_tasks, subhalo_pids, sub_vlcoeffs, newSpatialSubID,
                   newPhaseID, newPhaseSubID, closed_workers, phase_part_haloids,
                   haloID_dict, subhaloID_dict>>
    /\ UNCHANGED <<out_vars, call_vars, fof_vars, ct_vars, sp_vars>>

\* the first comm.send(None, dest=0, tag=tags.READY) of a worker
WorkerReady(w) ==
    /\ wpc[w] = "send_ready"
    /\ to_master' = Send(to_master, w, [tag |-> "READY"])
    /\ wpc' = [wpc EXCEPT ![w] = "recv"]
    /\ UNCHANGED <<results_dict, sub_results_dict, to_worker, seen_comps, seen_passes>>
    /\ WorkerFrame

\* START with a host task (kind 1): refine it, send the result with DONE and,
\* back at the top of the loop, READY
WorkerHostTask(w) ==
    /\ wpc[w] = "recv"
    /\ Arrived(to_worker, w, "START")
    /\ Head(to_worker[w]).task[1] = 1
    /\ LET thisTask == Head(to_worker[w])
           halo_poss == wrap_halo(PosOf(thisTask.pids), conf.boxsize)
       IN  \E result \in {get_real_host_halos(thisTask.task, thisTask.pids, halo_poss,
                                VelOf(thisTask.pids), conf, thisTask.vlcoeff)} :
           /\ results_dict' = [results_dict EXCEPT
                                 ![w] = MapPut(@, thisTask.task, result.results)]
           /\ to_master' = SendDoneReady(to_master, w,
                  [tag |-> "DONE", task |-> thisTask.task,
                   post_halo_pids |-> result.pid_results,
                   extra_halo_pids |-> result.extra_halo_pids,
                   extra_vlcoeffs |-> result.iter_vlcoeffs])
           /\ seen_comps' = seen_comps \cup
                  {[kind |-> 1, pids |-> c.pids, KE |-> c.KE, GE |-> c.GE] :
                     c \in result.seen}
           /\ seen_passes' = seen_passes \cup result.trace
    /\ to_worker' = Received(to_worker, w)
    /\ UNCHANGED wpc
    /\ UNCHANGED sub_results_dict
    /\ WorkerFrame

\* START with a spatial subhalo task (kind 2)
WorkerSpatialSubTask(w) ==
    /\ wpc[w] = "recv"
    /\ Arrived(to_worker, w, "START")
    /\ Head(to_worker[w]).task[1] = 2
    /\ LET thisTask == Head(to_worker[w])
           subhalo_poss == wrap_halo(PosOf(thisTask.pids), conf.boxsize)
       IN  \E result \in {get_sub_halos(thisTask.task, thisTask.pids, subhalo_poss,
                                        conf.sub_linkl)} :
           to_master' = SendDoneReady(to_master, w,
                  [tag |-> "DONE", task |-> result.thisTask,
                   subhalo_pids |-> result.subhalo_pids])
    /\ to_worker' = Received(to_worker, w)
    /\ UNCHANGED wpc
    /\ UNCHANGED <<results_dict, sub_results_dict, seen_comps, seen_passes>>
    /\ WorkerFrame

\* START with a phase-space subhalo task (kind 3)
WorkerPhaseSubTask(w) ==
    /\ wpc[w] = "recv"
    /\ Arrived(to_worker, w, "START")
    /\ Head(to_worker[w]).task[1] = 3
    /\ LET thisTask == Head(to_worker[w])
           subhalo_poss == wrap_halo(PosOf(thisTask.pids), conf.boxsize)
       IN  \E result \in {get_real_sub_halos(thisTask.task, thisTask.pids, subhalo_poss,
                                VelOf(thisTask.pids), conf, thisTask.vlcoeff)} :
           /\ sub_results_dict' = [sub_results_dict EXCEPT
                                     ![w] = MapPut(@, thisTask.task, result.results)]
           /\ to_master' = SendDoneReady(to_master, w,
                  [tag |-> "DONE", task |-> thisTask.task,
                   post_halo_pids |-> result.pid_results,
                   extra_halo_pids |-> result.extra_halo_pids,
                   extra_vlcoeffs |-> result.iter_vlcoeffs])
           /\ seen_comps' = seen_comps \cup
                  {[kind |-> 3, pids |-> c.pids, KE |-> c.KE, GE |-> c.GE] :
                     c \in result.seen}
           /\ seen_passes' = seen_passes \cup result.trace
    /\ to_worker' = Received(to_worker, w)
    /\ UNCHANGED wpc
    /\ UNCHANGED results_dict
    /\ WorkerFrame

\* (mutant) a worker that receives EXIT asks for a task once more
WorkerExitAsksAgain(w) ==
    /\ wpc[w] = "recv"
    /\ Arrived(to_worker, w, "EXIT")
    /\ to_worker' = Received(to_worker, w)
    /\ to_master' = Send(to_master, w, [tag |-> "READY"])
    /\ UNCHANGED <<wpc, results_dict, sub_results_dict, seen_comps, seen_passes>>
    /\ WorkerFrame

\* EXIT: leave the loop and tell rank 0
WorkerExit(w) ==
    /\ wpc[w] = "recv"
    /\ Arrived(to_worker, w, "EXIT")
    /\ to_worker' = Received(to_worker, w)
    /\ to_master' = Send(to_master, w, [tag |-> "EXIT"])
    /\ wpc' = [wpc EXCEPT ![w] = "closed"]
    /\ UNCHANGED <<results_dict, sub_results_dict, seen_comps, seen_passes>>
    /\ WorkerFrame

-----------------------------------------------------------------------------
(* The spatial search: domain decomposition and the first master/worker     *)
(* loop of hosthalofinder                                                   *)

\* if ncells < (size - 1): ncells = size - 1
AdjustedCells(ncells, size) == IF ncells < size - 1 THEN size - 1 ELSE ncells

\* np.linspace(0, npart, nbins, dtype=int): nbins edges from 0 to npart
bin_edges(npart, nbins) ==
    IF nbins = 1 THEN <<0>>
    ELSE [i \in 1..nbins |-> ((i - 1) * npart) \div (nbins - 1)]

\* nodes[ind] = np.arange(low, high) for the consecutive pairs of edges
decomp_nodes(npart, nbins) ==
    LET edges == bin_edges(npart, nbins)
    IN  [ind \in 0..(Len(edges) - 2) |-> edges[ind + 1]..(edges[ind + 2] - 1)]

-----------------------------------------------------------------------------
(* The domain decomposition on its own: hosthalofinder from its entry to   *)
(* the start of the spatial search                                         *)

\* npart, N_cells and the number of ranks of a run
DecompInputs ==
    [npart : 1..DecompMaxNPart, ncells : 1..DecompMaxCells,
     size : 2..(MaxWorkers + 2)]

DecompInit ==
    /\ FofIdle
    /\ SpIdle
    /\ CallIdle
    /\ OutIdle
    /\ PhIdle
    /\ conf \in DecompInputs
    /\ collected_results = <<>>
    /\ results = <<>>
    /\ ct_pc = "idle"
    /\ halo_pids = <<>>
    /\ vlcoeffs = <<>>
    /\ spatial_part_haloids = <<>>
    /\ newtaskID = 0
    /\ unique_haloids = {}

\* ncells is adjusted, the particles are cut into cells and the cells become
\* the tasks of the spatial search
Decompose ==
    /\ mpc = "idle"
    /\ conf \in DecompInputs
    /\ nodes' = decomp_nodes(conf.npart, AdjustedCells(conf.ncells, conf.size))
    /\ tasks' = DOMAIN nodes'
    /\ rank_results' = [w \in Workers |-> EmptyMap]
    /\ thisRank_parts' = [w \in Workers |-> {}]
    /\ mpc' = "spatial"
    /\ wpc' = [w \in Workers |-> "sp_send_ready"]
    /\ results_dict' = [w \in Workers |-> EmptyMap]
    /\ sub_results_dict' = [w \in Workers |-> EmptyMap]
    /\ to_master' = [w \in Workers |-> <<>>]
    /\ to_worker' = [w \in Workers |-> <<>>]
    /\ UNCHANGED <<halo_tasks, subhalo_pids, sub_vlcoeffs, newSpatialSubID,
                   newPhaseID, newPhaseSubID, closed_workers, phase_part_haloids,
                   haloID_dict, subhaloID_dict, seen_comps, seen_passes>>
    /\ UNCHANGED <<out_vars, call_vars, fof_vars, ct_vars>>

SpecDecomp == DecompInit /\ [][Decompose]_vars


\* the spatial halos that the query points of one cell belong to, keyed by
\* (thisTask, halo)
spatial_node_task(thisTask, query_pos, pos, linkl, npart, boxsize) ==
    With(FOFRun("find_halos", npart,
                [i \in DOMAIN query_pos |->
                   {j - 1 : j \in query_ball_point(pos, query_pos[i], linkl, boxsize)}]),
         LAMBDA found :
         [k \in {<<thisTask, halo>> : halo \in DOMAIN found.assigned_parts} |->
             found.assigned_parts[k[2]]])

\* (mutant) a small halo is dropped although other ranks hold particles of it
KeptByRankAnySmall(parts, thisRank) == Cardinality(parts) >= MinPart

\* if len(parts) < 10: if len(parts - thisRank_parts) == 0: continue
KeptByRank(parts, thisRank) ==
    ~(Cardinality(parts) < MinPart /\ parts \subseteq thisRank)

\* the halos of a rank's cells stitched together and keyed by (rank, newtaskID)
combine_tasks_per_thread(cell_results, rank, thisRank) ==
    LET halos == UNION {Values(cell_results[t]) : t \in DOMAIN cell_results}
        kept  == {parts \in connected_components(to_graph(halos)) :
                    KeptByRank(parts, thisRank)}
        order == SortedSeq({Min(parts) : parts \in kept})
    IN  [k \in {<<rank, i - 1>> : i \in DOMAIN order} |->
            CHOOSE parts \in kept : Min(parts) = order[k[2] + 1]]

\* the first loop runs: while closed_workers < num_workers
SpatialLoops == mpc = "spatial" /\ closed_workers < conf.size - 1

\* what the actions of the first loop leave alone
SpatialFrame ==
    /\ UNCHANGED <<halo_tasks, subhalo_pids, sub_vlcoeffs, newSpatialSubID,
                   newPhaseID, newPhaseSubID, phase_part_haloids, haloID_dict,
                   subhaloID_dict, results_dict, sub_results_dict, seen_comps, seen_passes>>
    /\ UNCHANGED <<conf, halo_pids, vlcoeffs, spatial_part_haloids, newtaskID,
                   unique_haloids>>
    /\ UNCHANGED <<out_vars, call_vars, fof_vars, nodes>>

\* (mutant) the cell is sent and stays in the queue
SpatialMasterReadyStartKeeps(w) ==
    /\ SpatialLoops
    /\ Arrived(to_master, w, "READY")
    /\ tasks # {}
    /\ \E thisTask \in tasks :
          to_worker' = Send(to_worker, w, [tag |-> "START", task |-> thisTask])
    /\ to_master' = Received(to_master, w)
    /\ UNCHANGED <<mpc, closed_workers, wpc, tasks, rank_results, thisRank_parts,
                   collected_results, results, ct_pc>>
    /\ SpatialFrame

\* READY while cells are left: thisTask = tasks.pop(), START
SpatialMasterReadyStart(w) ==
    /\ SpatialLoops
    /\ Arrived(to_master, w, "READY")
    /\ tasks # {}
    /\ \E thisTask \in tasks :
          /\ tasks' = tasks \ {thisTask}
          /\ to_worker' = Send(to_worker, w, [tag |-> "START", task |-> thisTask])
    /\ to_master' = Received(to_master, w)
    /\ UNCHANGED <<mpc, closed_workers, wpc, rank_results, thisRank_parts,
                   collected_results, results, ct_pc>>
    /\ SpatialFrame

\* READY when no cell is left: EXIT
SpatialMasterReadyExit(w) ==
    /\ SpatialLoops
    /\ Arrived(to_master, w, "READY")
    /\ tasks = {}
    /\ to_worker' = Send(to_worker, w, [tag |-> "EXIT"])
    /\ to_master' = Received(to_master, w)
    /\ UNCHANGED <<mpc, closed_workers, wpc, tasks, rank_results, thisRank_parts,
                   collected_results, results, ct_pc>>
    /\ SpatialFrame

\* DONE: result = data, nothing else
SpatialMasterDone(w) ==
    /\ SpatialLoops
    /\ Arrived(to_master, w, "DONE")
    /\ to_master' = Received(to_master, w)
    /\ UNCHANGED <<mpc, closed_workers, wpc, tasks, rank_results, thisRank_parts,
                   to_worker, collected_results, results, ct_pc>>
    /\ SpatialFrame

\* EXIT: closed_workers += 1
SpatialMasterExit(w) ==
    /\ SpatialLoops
    /\ Arrived(to_master, w, "EXIT")
    /\ closed_workers' = closed_workers + 1
    /\ to_master' = Received(to_master, w)
    /\ UNCHANGED <<mpc, wpc, tasks, rank_results, thisRank_parts, to_worker,
                   collected_results, results, ct_pc>>
    /\ SpatialFrame

\* the first comm.send(None, dest=0, tag=tags.READY) of a worker
SpatialWorkerReady(w) ==
    /\ wpc[w] = "sp_send_ready"
    /\ to_master' = Send(to_master, w, [tag |-> "READY"])
    /\ wpc' = [wpc EXCEPT ![w] = "sp_recv"]
    /\ UNCHANGED <<mpc, closed_workers, tasks, rank_results, thisRank_parts,
                   to_worker, collected_results, results, ct_pc>>
    /\ SpatialFrame

\* START: search the cell, send DONE, keep the result and the cell's
\* particles and, back at the top of the loop, send READY
SpatialWorkerTask(w) ==
    /\ wpc[w] = "sp_recv"
    /\ Arrived(to_worker, w, "START")
    /\ LET thisTask == Head(to_worker[w]).task
       IN  \E result \in {spatial_node_task(thisTask,
                              [k \in DOMAIN SortedSeq(nodes[thisTask]) |->
                                  conf.pos[SortedSeq(nodes[thisTask])[k] + 1]],
                              conf.pos, conf.linkl, conf.npart, conf.boxsize)} :
           /\ rank_results' = [rank_results EXCEPT ![w] = MapPut(@, thisTask, result)]
           /\ thisRank_parts' = [thisRank_parts EXCEPT ![w] = @ \cup nodes[thisTask]]
    /\ to_master' = SendDoneReady(to_master, w, [tag |-> "DONE"])
    /\ to_worker' = Received(to_worker, w)
    /\ UNCHANGED <<mpc, closed_workers, wpc, tasks, collected_results, results, ct_pc>>
    /\ SpatialFrame

\* EXIT: combine_tasks_per_thread, leave the loop and tell rank 0
SpatialWorkerExit(w) ==
    /\ wpc[w] = "sp_recv"
    /\ Arrived(to_worker, w, "EXIT")
    /\ rank_results' = [rank_results EXCEPT
                          ![w] = combine_tasks_per_thread(@, w, thisRank_parts[w])]
    /\ to_worker' = Received(to_worker, w)
    /\ to_master' = Send(to_master, w, [tag |-> "EXIT"])
    /\ wpc' = [wpc EXCEPT ![w] = "sp_closed"]
    /\ UNCHANGED <<mpc, closed_workers, tasks, thisRank_parts, collected_results,
                   results, ct_pc>>
    /\ SpatialFrame

\* the first loop is over on every rank: collected_results = comm.gather(results),
\* rank 0 merges the dictionaries and goes on to combine_tasks
SpatialGather ==
    /\ mpc = "spatial"
    /\ closed_workers >= conf.size - 1
    /\ \A w \in Workers : wpc[w] = "sp_closed"
    /\ collected_results' = [rank \in 1..conf.size |->
                                IF rank = 1 THEN EmptyMap ELSE rank_results[rank - 1]]
    /\ results' = MergeDicts(collected_results')
    /\ ct_pc' = "graph"
    /\ mpc' = "combine"
    /\ wpc' = [w \in Workers |-> "send_ready"]
    /\ UNCHANGED <<closed_workers, tasks, rank_results, thisRank_parts, to_master,
                   to_worker>>
    /\ SpatialFrame

-----------------------------------------------------------------------------
(* The snapshots and parameters of the runs that are checked               *)

\* k copies of x
Rep(k, x) == [i \in 1..k |-> x]

\* particle snapshots: positions and velocities along one axis by particle ID

\* 21 particles at one point, in two velocity groups of 10 and 11 that a
\* narrower velocity linking length separates
SnapSplit ==
    [pos |-> Rep(21, 0), vel |-> Rep(10, 0) \o Rep(11, 3)]

\* a bound halo of two clumps one linking length apart
SnapClumps ==
    [pos |-> Rep(12, 0) \o Rep(10, 4), vel |-> Rep(12, 0) \o Rep(10, 1)]

\* 10 particles with KE = GE and 4 fast particles at one point; far away a
\* chain of 10 velocities that stays linked and unbound
SnapBoundary ==
    [pos |-> Rep(14, 0) \o Rep(10, 40),
     vel |-> Rep(5, 0) \o Rep(5, 2) \o Rep(4, 7) \o <<0, 1, 2, 3, 4, 5, 6, 7, 3, 4>>]

\* 23 particles in three velocity groups of 10, 5 and 8; far away a spatial
\* halo of only 9 particles
SnapThree ==
    [pos |-> Rep(23, 0) \o Rep(9, 40),
     vel |-> Rep(10, 0) \o Rep(5, 3) \o Rep(8, 6) \o Rep(9, 0)]

\* 19 particles at one point that the first pass already separates into a
\* group of 10 and a group of 9; far away spatial halos of 9 and of 10
SnapTen ==
    [pos |-> Rep(19, 0) \o Rep(9, 40) \o Rep(10, 80),
     vel |-> Rep(10, 0) \o Rep(9, 5) \o Rep(19, 0)]

\* a bound halo of 12 particles, 2 of them a satellite that the subhalo
\* linking length separates from the other 10
SnapSatellite ==
    [pos |-> Rep(10, 0) \o Rep(2, 4), vel |-> Rep(12, 0)]

Snapshots == {SnapSplit, SnapClumps, SnapBoundary, SnapThree}

RECURSIVE SpatialGrow(_, _, _)
\* the particles joined to S by chains of steps no longer than linkl
SpatialGrow(pos, linkl, S) ==
    LET T == S \cup {q \in DOMAIN pos : \E p \in S : Abs(pos[p] - pos[q]) <= linkl}
    IN  IF T = S THEN S ELSE SpatialGrow(pos, linkl, T)

\* the halos of two or more particles the spatial search returns, as sets of
\* particle IDs
SpatialGroups(pos, linkl) ==
    {g \in {{p - 1 : p \in SpatialGrow(pos, linkl, {q})} : q \in DOMAIN pos} :
        Cardinality(g) >= 2}

\* the gathered dictionaries when rank 1 ran every cell of the spatial search
Gathered(pos, linkl, size) ==
    LET groups == SortedSeq({Min(g) : g \in SpatialGroups(pos, linkl)})
    IN  [rank \in 1..size |->
            IF rank = 2
            THEN [k \in {<<1, i - 1>> : i \in DOMAIN groups} |->
                    CHOOSE g \in SpatialGroups(pos, linkl) : Min(g) = groups[k[2] + 1]]
            ELSE EmptyMap]

\* the gathered dictionaries when the cells were dealt out so that the halos
\* were found by the worker ranks in turn
GatheredSpread(pos, linkl, size) ==
    LET groups == SortedSeq({Min(g) : g \in SpatialGroups(pos, linkl)})
    IN  [rank \in 1..size |->
            IF rank >= 2
            THEN [k \in {<<rank - 1, (i - 1) \div (size - 1)>> :
                          i \in {j \in DOMAIN groups : (j - 1) % (size - 1) = rank - 2}} |->
                    CHOOSE g \in SpatialGroups(pos, linkl) :
                        Min(g) = groups[k[2] * (size - 1) + rank - 1]]
            ELSE EmptyMap]

\* the parameters of a run: lengths in units in which linkl is 4 and the
\* softening 3, G * pmass * h * (1 + z)^2 / 3.086e+19 = 3 / 11, ini_alpha_v
\* 1.0, alpha decrement 0.2, min_alpha_v 0.4 or 0.8
PhaseConf(snap, minv, fs, W) ==
    [npart |-> Len(snap.pos), pos |-> snap.pos, vel |-> snap.vel,
     boxsize |-> 180, linkl |-> 4, sub_linkl |-> 2, soft |-> 3,
     gunit |-> <<3, 11>>, ini_vlcoeff |-> 5, decrement |-> 1,
     min_vlcoeff |-> minv, findsubs |-> fs, size |-> W + 1, nnodes |-> W]

\* 12 particles at one point and 4 at another, numbered so that both groups
\* lie across the boundary between two cells
SnapCells ==
    [pos |-> Rep(6, 0) \o Rep(4, 40) \o Rep(6, 0), vel |-> Rep(16, 0)]

\* the requested numbers of cells
CellCounts == {1, 3, 4}

\* the runs that start at the spatial search
SpatialConfs ==
    {[PhaseConf(SnapCells, 4, FALSE, W) EXCEPT
        !.nnodes = AdjustedCells(ncells, W + 1) - 1] @@ [ncells |-> ncells] :
        ncells \in CellCounts, W \in 1..MaxWorkers}

\* every snapshot with and without subhalos; SnapTen, with its three records,
\* without subhalos only, and SnapSatellite with subhalos only
PhaseConfs ==
    {PhaseConf(snap, minv, fs, W) :
        snap \in Snapshots, minv \in {2, 4}, fs \in BOOLEAN, W \in 1..MaxWorkers}
    \cup {PhaseConf(SnapTen, minv, FALSE, W) : minv \in {2, 4}, W \in 1..MaxWorkers}
    \cup {PhaseConf(SnapSatellite, 4, TRUE, W) : W \in 1..MaxWorkers}

\* a run from the gather after the spatial search onwards
InitAtGather ==
    /\ FofIdle
    /\ SpIdle
    /\ CallIdle
    /\ OutIdle
    /\ conf \in PhaseConfs
    /\ collected_results \in {Gathered(conf.pos, conf.linkl, conf.size),
                              GatheredSpread(conf.pos, conf.linkl, conf.size)}
    /\ results = MergeDicts(collected_results)
    /\ ct_pc = "graph"
    /\ halo_pids = EmptyMap
    /\ vlcoeffs = EmptyMap
    /\ spatial_part_haloids = NoHaloIDs(conf.npart)
    /\ newtaskID = 0
    /\ unique_haloids = {}
    /\ mpc = "combine"
    /\ halo_tasks = {}
    /\ subhalo_pids = EmptyMap
    /\ sub_vlcoeffs = EmptyMap
    /\ newSpatialSubID = 0
    /\ newPhaseID = 0
    /\ newPhaseSubID = 0
    /\ closed_workers = 0
    /\ phase_part_haloids = NoHaloIDs(conf.npart)
    /\ haloID_dict = EmptyMap
    /\ subhaloID_dict = EmptyMap
    /\ wpc = [w \in Workers |-> "send_ready"]
    /\ results_dict = [w \in Workers |-> EmptyMap]
    /\ sub_results_dict = [w \in Workers |-> EmptyMap]
    /\ to_master = [w \in Workers |-> <<>>]
    /\ to_worker = [w \in Workers |-> <<>>]
    /\ seen_comps = {}
    /\ seen_passes = {}

\* a run from the start of the spatial search
InitAtStart ==
    /\ FofIdle
    /\ CallIdle
    /\ OutIdle
    /\ conf \in SpatialConfs
    /\ nodes = decomp_nodes(conf.npart, AdjustedCells(conf.ncells, conf.size))
    /\ tasks = DOMAIN nodes
    /\ rank_results = [w \in Workers |-> EmptyMap]
    /\ thisRank_parts = [w \in Workers |-> {}]
    /\ collected_results = <<>>
    /\ results = EmptyMap
    /\ ct_pc = "idle"
    /\ halo_pids = EmptyMap
    /\ vlcoeffs = EmptyMap
    /\ spatial_part_haloids = NoHaloIDs(conf.npart)
    /\ newtaskID = 0
    /\ unique_haloids = {}
    /\ mpc = "spatial"
    /\ halo_tasks = {}
    /\ subhalo_pids = EmptyMap
    /\ sub_vlcoeffs = EmptyMap
    /\ newSpatialSubID = 0
    /\ newPhaseID = 0
    /\ newPhaseSubID = 0
    /\ closed_workers = 0
    /\ phase_part_haloids = NoHaloIDs(conf.npart)
    /\ haloID_dict = EmptyMap
    /\ subhaloID_dict = EmptyMap
    /\ wpc = [w \in Workers |-> "sp_send_ready"]
    /\ results_dict = [w \in Workers |-> EmptyMap]
    /\ sub_results_dict = [w \in Workers |-> EmptyMap]
    /\ to_master = [w \in Workers |-> <<>>]
    /\ to_worker = [w \in Workers |-> <<>>]
    /\ seen_comps = {}
    /\ seen_passes = {}

Init == InitAtStart \/ InitAtGather

Next ==
    \/ \E w \in Workers : SpatialMasterReadyStart(w)
    \/ \E w \in Workers : SpatialMasterReadyExit(w)
    \/ \E w \in Workers : SpatialMasterDone(w)
    \/ \E w \in Workers : SpatialMasterExit(w)
    \/ \E w \in Workers : SpatialWorkerReady(w)
    \/ \E w \in Workers : SpatialWorkerTask(w)
    \/ \E w \in Workers : SpatialWorkerExit(w)
    \/ SpatialGather
    \/ CtGraph
    \/ CtPop
    \/ CtReturn
    \/ MasterSetup
    \/ \E w \in Workers : MasterReadyStart(w)
    \/ \E w \in Workers : MasterReadyExit(w)
    \/ \E w \in Workers : MasterDoneHost(w)
    \/ \E w \in Workers : MasterDoneSpatialSub(w)
    \/ \E w \in Workers : MasterDonePhaseSub(w)
    \/ \E w \in Workers : MasterExit(w)
    \/ MasterLoopEnd
    \/ \E w \in Workers : WorkerReady(w)
    \/ \E w \in Workers : WorkerHostTask(w)
    \/ \E w \in Workers : WorkerSpatialSubTask(w)
    \/ \E w \in Workers : WorkerPhaseSubTask(w)
    \/ \E w \in Workers : WorkerExit(w)

Spec == Init /\ [][Next]_vars

\* the steps of rank 0
MasterNext ==
    \/ \E w \in Workers : SpatialMasterReadyStart(w)
    \/ \E w \in Workers : SpatialMasterReadyExit(w)
    \/ \E w \in Workers : SpatialMasterDone(w)
    \/ \E w \in Workers : SpatialMasterExit(w)
    \/ SpatialGather
    \/ CtGraph
    \/ CtPop
    \/ CtReturn
    \/ MasterSetup
    \/ \E w \in Workers : MasterReadyStart(w)
    \/ \E w \in Workers : MasterReadyExit(w)
    \/ \E w \in Workers : MasterDoneHost(w)
    \/ \E w \in Workers : MasterDoneSpatialSub(w)
    \/ \E w \in Workers : MasterDonePhaseSub(w)
    \/ \E w \in Workers : MasterExit(w)
    \/ MasterLoopEnd

\* the variables that show where every process stands: each step changes one
Progress == <<mpc, ct_pc, newtaskID, closed_workers, wpc, to_master, to_worker>>

\* the steps of the worker of rank w in the spatial search, and its READY and
\* its exit in the phase-space search
WorkerNext(w) ==
    /\ w \in Workers
    /\ \/ SpatialWorkerReady(w)
       \/ SpatialWorkerTask(w)
       \/ SpatialWorkerExit(w)
       \/ WorkerReady(w)
       \/ WorkerExit(w)

\* the worker of rank w takes a START of the phase-space search off its
\* channel: the step of WorkerHostTask, WorkerSpatialSubTask or
\* WorkerPhaseSubTask, told by what it does to the channel
WorkerTakesStart(w) ==
    /\ w \in Workers
    /\ wpc[w] = "recv"
    /\ Arrived(to_worker, w, "START")
    /\ to_worker' = Received(to_worker, w)

\* the runs checked for termination: the spatial search over three cells and
\* the phase-space search over SnapSplit with subhalos
InitLive ==
    \/ InitAtStart /\ conf.ncells = 3
    \/ InitAtGather /\ conf.findsubs /\ conf.pos = SnapSplit.pos

\* every process keeps running: a blocking comm.recv returns once a message
\* has been sent to it and every task computation returns
SpecLive ==
    /\ InitLive
    /\ [][Next]_vars
    /\ WF_Progress(MasterNext)
    /\ \A w \in 1..MaxWorkers :
          WF_Progress(WorkerNext(w)) /\ WF_to_worker(WorkerTakesStart(w))

-----------------------------------------------------------------------------
(* Properties of the phase-space stage                                      *)

\* the emitted records of a results dictionary, by worker, task and component
RecordIndex(dict) ==
    UNION {UNION {{<<w, t, r>> : r \in DOMAIN dict[w][t]} : t \in DOMAIN dict[w]} :
             w \in DOMAIN dict}

RecordAt(dict, k) == dict[k[1]][k[2]][k[3]]

\* the member set of a record
Members(dict, k) == Elems(RecordAt(dict, k).pids)

\* no particle is a member of two records of the dictionary
RecordsDisjoint(dict) ==
    \A k1, k2 \in RecordIndex(dict) :
        k1 # k2 => Members(dict, k1) \cap Members(dict, k2) = {}

\* C1: once the master loop has finished, every particle is a member of at
\* most one emitted host halo record and of at most one emitted subhalo
\* record, for every number of workers and every order of task assignment
C1_OneHostOneSubhalo ==
    mpc = "gather" => RecordsDisjoint(results_dict) /\ RecordsDisjoint(sub_results_dict)

\* a run with two workers has finished in which a spatial halo was split into
\* two host records and each got a subhalo record
C1_Witness ==
    /\ mpc = "gather"
    /\ conf.size = 3
    /\ \E k1, k2 \in RecordIndex(results_dict) : k1 # k2
    /\ \E k1, k2 \in RecordIndex(sub_results_dict) : k1 # k2

\* the extra candidates of the DONE messages on their way to rank 0
ExtrasInFlight ==
    UNION {UNION {{to_master[w][i].extra_halo_pids[k] :
                     k \in DOMAIN to_master[w][i].extra_halo_pids} :
                  i \in {j \in DOMAIN to_master[w] :
                           "extra_halo_pids" \in DOMAIN to_master[w][j]}} :
             w \in Workers}

\* every record of the dictionary counts its members and has 10 or more
RecordsLarge(dict) ==
    \A k \in RecordIndex(dict) :
        /\ RecordAt(dict, k).npart >= MinPart
        /\ RecordAt(dict, k).npart = Cardinality(Members(dict, k))

\* C2: every record emitted by get_real_host_halos or get_real_sub_halos has
\* npart >= 10, and no candidate of fewer than 10 particles is handed back as
\* an extra task
C2_AtLeastTenParticles ==
    /\ RecordsLarge(results_dict)
    /\ RecordsLarge(sub_results_dict)
    /\ \A pids \in ExtrasInFlight : Len(pids) >= MinPart

\* a record was emitted for a spatial halo of which other particles, in
\* components of fewer than 10, were dropped
C2_Witness ==
    \E k \in RecordIndex(results_dict) :
        \E p \in Members(results_dict, k), q \in 0..(conf.npart - 1) :
            /\ spatial_part_haloids[q][0] = spatial_part_haloids[p][0]
            /\ phase_part_haloids[p][0] # -2
            /\ phase_part_haloids[q][0] = -2
            /\ mpc = "gather"

\* C3: the particles of every emitted subhalo record are a subset of the
\* particles of exactly one emitted host halo record: they all carry the same
\* host ID in column 0 of phase_part_haloids, and it is not -2
C3_SubhaloInsideOneHost ==
    \A k \in RecordIndex(sub_results_dict) :
        /\ Cardinality({h \in RecordIndex(results_dict) :
                          Members(sub_results_dict, k) \subseteq Members(results_dict, h)}) = 1
        /\ \A p, q \in Members(sub_results_dict, k) :
              /\ phase_part_haloids[p][0] = phase_part_haloids[q][0]
              /\ phase_part_haloids[p][0] # -2

\* a subhalo record holds some but not all particles of a host record
C3_Witness ==
    \E k \in RecordIndex(sub_results_dict), h \in RecordIndex(results_dict) :
        /\ Members(sub_results_dict, k) \subseteq Members(results_dict, h)
        /\ Members(sub_results_dict, k) # Members(results_dict, h)

\* the energies of the particles of a record, computed afresh
EnergyOf(rec) ==
    halo_energy_calc(wrap_halo(PosOf(rec.pids), conf.boxsize), VelOf(rec.pids),
                     Len(rec.pids), conf.soft, conf.gunit)

RatEq(a, b) == a.num * b.den = b.num * a.den

\* the stored energies are those of the stored members, and a real record is
\* bound
RecordsBoundIfReal(dict) ==
    \A k \in RecordIndex(dict) :
        /\ RatEq(RecordAt(dict, k).KE, EnergyOf(RecordAt(dict, k)).KE)
        /\ RatEq(RecordAt(dict, k).GE, EnergyOf(RecordAt(dict, k)).GE)
        /\ RecordAt(dict, k).real => RatLeq(RecordAt(dict, k).KE, RecordAt(dict, k).GE)

\* C4: every emitted halo or subhalo record with real = true has KE / GE <= 1,
\* KE and GE being the stored energies, which are the energies of exactly the
\* stored member set
C4_RealIsBound ==
    RecordsBoundIfReal(results_dict) /\ RecordsBoundIfReal(sub_results_dict)

\* a real host record that the refinement loop cut out of a larger spatial
\* halo, and a record that is not real
C4_Witness ==
    /\ \E k \in RecordIndex(results_dict) :
          /\ RecordAt(results_dict, k).real
          /\ \E p \in Members(results_dict, k), q \in 0..(conf.npart - 1) :
                /\ q \notin Members(results_dict, k)
                /\ spatial_part_haloids[q][0] = spatial_part_haloids[p][0]
    /\ \E k \in RecordIndex(results_dict) : ~RecordAt(results_dict, k).real

\* the dictionary of the records of a kind of task
RecordsOfKind(kind) == IF kind = 1 THEN results_dict ELSE sub_results_dict

\* C5: every phase-space component of 10 or more particles with KE / GE <= 1
\* (of a first pass, continued in the refinement loop or handed off as an
\* extra task, KE = GE included) is emitted as a record with real = true and
\* exactly its members
C5_BoundIsEmittedReal ==
    mpc = "gather" =>
        \A c \in seen_comps :
            RatLeq(c.KE, c.GE) =>
                \E k \in RecordIndex(RecordsOfKind(c.kind)) :
                    /\ Members(RecordsOfKind(c.kind), k) = c.pids
                    /\ RecordAt(RecordsOfKind(c.kind), k).real

\* the particles of the spatial halo that was given the task ID id
TaskParticles(id) ==
    {p \in 0..(conf.npart - 1) : spatial_part_haloids[p][0] = id}

RECURSIVE PhaseGrow(_, _, _, _)
\* the particles of G joined to S by chains of phase-space neighbours
PhaseGrow(G, S, linkl, vl6) ==
    LET T == S \cup {q \in G : \E p \in S :
                       PhaseNear(conf.pos[p + 1] - conf.pos[q + 1],
                                 conf.vel[p + 1] - conf.vel[q + 1], linkl, vl6)}
    IN  IF T = S THEN S ELSE PhaseGrow(G, T, linkl, vl6)

\* the phase-space components of the first pass over a spatial halo G
FirstPassComponents(G) ==
    {PhaseGrow(G, {p}, conf.linkl, Vlinkl6(conf.ini_vlcoeff, Cardinality(G), 1)) :
       p \in G}

\* the initial host tasks that a worker has completed
CompletedInitialTasks ==
    {t \in UNION {DOMAIN results_dict[w] : w \in Workers} : t[2] \in unique_haloids}

\* C11: the size threshold is inclusive at 10 at every stage: combine_tasks
\* keeps exactly the stitched spatial halos of 10 or more particles and they
\* are its tasks, and of the phase-space components of a task exactly those
\* of 10 or more particles are tested
C11_ThresholdInclusive ==
    /\ (ct_pc = "done" /\ mpc = "combine") =>
          /\ MergedHalos =
                {g \in {UNION c : c \in OverlapComponents} : Cardinality(g) >= MinPart}
          /\ DOMAIN halo_pids = {<<1, id>> : id \in unique_haloids}
    /\ \A t \in CompletedInitialTasks :
          \A comp \in FirstPassComponents(TaskParticles(t[2])) :
              Cardinality(comp) >= MinPart <=>
                  \E c \in seen_comps : c.kind = 1 /\ c.pids = comp

\* a run has finished in which a spatial halo of 9 particles was discarded,
\* one of exactly 10 became a task and has its record, and a first pass gave
\* a component of exactly 10 that has its record and one of 9 that has none
C11_Witness ==
    /\ mpc = "gather"
    /\ \E g \in {UNION c : c \in OverlapComponents} :
          /\ Cardinality(g) = 9
          /\ \A p \in g : spatial_part_haloids[p][0] = -2
    /\ \E g \in {UNION c : c \in OverlapComponents} :
          /\ Cardinality(g) = MinPart
          /\ \E k \in RecordIndex(results_dict) : Members(results_dict, k) = g
    /\ \E t \in CompletedInitialTasks :
          \E c10, c9 \in FirstPassComponents(TaskParticles(t[2])) :
              /\ Cardinality(c10) = MinPart
              /\ Cardinality(c9) = 9
              /\ \E k \in RecordIndex(results_dict) : Members(results_dict, k) = c10
              /\ \A k \in RecordIndex(results_dict) :
                     Members(results_dict, k) \cap c9 = {}

RECURSIVE ReferenceHosts(_, _)
\* the member sets of the host records when the todo are run one after
\* another: todo are the tasks still to run, each with its particles and its
\* coefficient, acc the member sets emitted so far
ReferenceHosts(todo, acc) ==
    IF todo = {} THEN acc
    ELSE LET t == CHOOSE x \in todo : TRUE
         IN  With(get_real_host_halos(<<1, 0>>, t.pids,
                                      wrap_halo(PosOf(t.pids), conf.boxsize),
                                      VelOf(t.pids), conf, t.vlcoeff),
                  LAMBDA r :
                  ReferenceHosts(
                      (todo \ {t}) \cup
                          {[pids |-> r.extra_halo_pids[k], vlcoeff |-> r.iter_vlcoeffs[k]] :
                             k \in DOMAIN r.extra_halo_pids},
                      acc \cup {r.pid_results[k] : k \in DOMAIN r.pid_results}))

RECURSIVE ReferenceSubs(_, _)
\* the same for the phase-space subhalo todo
ReferenceSubs(todo, acc) ==
    IF todo = {} THEN acc
    ELSE LET t == CHOOSE x \in todo : TRUE
         IN  With(get_real_sub_halos(<<3, 0>>, t.pids,
                                     wrap_halo(PosOf(t.pids), conf.boxsize),
                                     VelOf(t.pids), conf, t.vlcoeff),
                  LAMBDA r :
                  ReferenceSubs(
                      (todo \ {t}) \cup
                          {[pids |-> r.extra_halo_pids[k], vlcoeff |-> r.iter_vlcoeffs[k]] :
                             k \in DOMAIN r.extra_halo_pids},
                      acc \cup {r.pid_results[k] : k \in DOMAIN r.pid_results}))

\* the particles that are query points of the spatial search: those of the
\* cells, all of them in a run that starts at the gather
QueriedParticles ==
    IF "ncells" \in DOMAIN conf
    THEN UNION {nodes[cell] : cell \in DOMAIN nodes}
    ELSE 0..(conf.npart - 1)

\* the host records of the input alone
ReferenceHostRecords ==
    ReferenceHosts({[pids |-> SortedSeq(g), vlcoeff |-> conf.ini_vlcoeff] :
                      g \in {h \in SpatialGroups(conf.pos, conf.linkl) :
                               /\ Cardinality(h) >= MinPart
                               /\ h \cap QueriedParticles # {}}}, {})

\* the spatial subhalos of a host record
ReferenceSpatialSubs(host_pids) ==
    Values(get_sub_halos(<<2, 0>>, host_pids,
                         wrap_halo(PosOf(host_pids), conf.boxsize),
                         conf.sub_linkl).subhalo_pids)

\* the subhalo records of the input alone
ReferenceSubRecords ==
    IF conf.findsubs
    THEN ReferenceSubs({[pids |-> sub, vlcoeff |-> conf.ini_vlcoeff] :
                          sub \in UNION {ReferenceSpatialSubs(host) :
                                           host \in ReferenceHostRecords}}, {})
    ELSE {}

\* the member sets of the records of a dictionary
MemberSets(dict) == {Members(dict, k) : k \in RecordIndex(dict)}

\* C12: the set of emitted halo member sets, host and subhalo, is the same
\* for every interleaving of the messages and every assignment of cells and
\* tasks to workers on the same input: it is the set that running the tasks
\* of the input one after another gives
C12_MembershipIsDeterministic ==
    mpc = "gather" =>
        /\ MemberSets(results_dict) = {Elems(h) : h \in ReferenceHostRecords}
        /\ MemberSets(sub_results_dict) = {Elems(h) : h \in ReferenceSubRecords}

\* the dense ID of the host halo with the members of the record
DenseID(k) == phase_part_haloids[Min(Members(results_dict, k))][0]

\* a run with two workers has finished in which both emitted host records,
\* the halos were found by different ranks, and the dense IDs of two halos
\* are in the opposite order of their particles
C12_Witness ==
    /\ mpc = "gather"
    /\ conf.size = 3
    /\ collected_results[2] # EmptyMap
    /\ collected_results[3] # EmptyMap
    /\ \A w \in Workers : results_dict[w] # EmptyMap
    /\ \E k1, k2 \in RecordIndex(results_dict) :
          /\ Min(Members(results_dict, k1)) < Min(Members(results_dict, k2))
          /\ DenseID(k1) > DenseID(k2)

\* the task queue of the master loop that is running
TaskQueue == IF mpc = "spatial" THEN tasks ELSE halo_tasks

\* rank 0 takes a READY of worker w off the channel in this step
TakesReady(w) ==
    /\ Arrived(to_master, w, "READY")
    /\ to_master'[w] = Tail(to_master[w])

\* rank 0 answers w in this step with START and a task it removes from the
\* queue if the queue is not empty, with EXIT otherwise, and with nothing else
AnswersOnce(w) ==
    /\ Len(to_worker'[w]) = Len(to_worker[w]) + 1
    /\ SubSeq(to_worker'[w], 1, Len(to_worker[w])) = to_worker[w]
    /\ LET msg == to_worker'[w][Len(to_worker'[w])]
       IN  IF TaskQueue # {}
           THEN /\ msg.tag = "START"
                /\ msg.task \in TaskQueue
                /\ msg.task \notin TaskQueue'
           ELSE /\ msg.tag = "EXIT"
                /\ TaskQueue' = {}

\* C13: in both master loops a READY received from worker w is answered with
\* exactly one message to w, START with a task removed from the queue if the
\* queue is not empty and EXIT otherwise, and rank 0 sends to a worker only
\* in answer to a READY of that worker
C13_ReadyAnsweredOnce ==
    [][\A w \in Workers :
          /\ TakesReady(w) => AnswersOnce(w)
          /\ to_worker'[w] # to_worker[w] /\ Len(to_worker'[w]) >= Len(to_worker[w])
                => TakesReady(w)]_vars

\* in a run that has been through the spatial loop, the phase-space loop has
\* answered one worker with START and the other with EXIT
C13_Witness ==
    /\ mpc = "loop"
    /\ "ncells" \in DOMAIN conf
    /\ \E w1, w2 \in Workers :
          /\ Arrived(to_worker, w1, "START")
          /\ Arrived(to_worker, w2, "EXIT")

\* worker w has left its loop and sent its EXIT
HasSentExit(w) == wpc[w] \in {"sp_closed", "closed"}

\* the workers whose EXIT rank 0 has received in the loop that is running or
\* has just finished
ExitsReceived == {w \in Workers : HasSentExit(w) /\ to_master[w] = <<>>}

\* the loop condition closed_workers < num_workers has failed
LoopFinished ==
    \/ mpc \in {"spatial", "loop"} /\ closed_workers >= conf.size - 1
    \/ mpc = "gather"

\* worker w puts an EXIT on its channel to rank 0 in this step
SendsExit(w) ==
    /\ Len(to_master'[w]) = Len(to_master[w]) + 1
    /\ to_master'[w][Len(to_master'[w])].tag = "EXIT"

\* C14: a master loop finishes only after EXIT has been received from every
\* worker; a worker sends EXIT once per loop and only on receiving EXIT
\* itself, so closed_workers counts distinct workers and never exceeds W
C14_ExitFromEveryWorker ==
    /\ [](mpc \in {"spatial", "loop", "gather"} =>
             /\ closed_workers = Cardinality(ExitsReceived)
             /\ closed_workers <= conf.size - 1
             /\ LoopFinished => ExitsReceived = Workers
             /\ \A w \in Workers :
                   Cardinality({j \in DOMAIN to_master[w] :
                                   to_master[w][j].tag = "EXIT"}) <= 1)
    /\ [][\A w \in Workers :
             /\ SendsExit(w) =>
                   /\ ~HasSentExit(w)
                   /\ Arrived(to_worker, w, "EXIT")
                   /\ to_worker'[w] = Tail(to_worker[w])
             /\ HasSentExit(w) /\ HasSentExit(w)' =>
                   Len(to_master'[w]) <= Len(to_master[w])]_vars

\* both loops have finished with two workers, each closed in each loop
C14_Witness ==
    /\ mpc = "gather"
    /\ "ncells" \in DOMAIN conf
    /\ conf.size = 3
    /\ closed_workers = 2
    /\ ExitsReceived = {1, 2}

\* C15: with at least one worker, tasks that return and messages that are
\* received, both master loops end with every worker closed, although the
\* DONE branches add extra halo tasks and subhalo tasks to the queue
C15_LoopsTerminate ==
    /\ (mpc = "spatial") ~> (/\ mpc = "spatial"
                             /\ LoopFinished
                             /\ ExitsReceived = Workers)
    /\ <>(mpc = "gather" /\ ExitsReceived = Workers /\ halo_tasks = {})

\* the phase-space loop has finished after the DONE branches queued a split
\* halo as an extra task and a subhalo task
C15_Witness ==
    /\ mpc = "gather"
    /\ ExitsReceived = Workers
    /\ newtaskID > Cardinality(unique_haloids)
    /\ DOMAIN sub_results_dict # {}

\* rank 0 has sent EXIT to worker w in the loop that is running
ExitSent(w) ==
    \/ \E j \in DOMAIN to_worker[w] : to_worker[w][j].tag = "EXIT"
    \/ HasSentExit(w)

\* C16: once rank 0 has sent EXIT to worker w in a loop, w runs no further
\* task in that loop, sends no further READY or DONE, and is sent no further
\* START
C16_NothingAfterExit ==
    [][\A w \in Workers : ExitSent(w) =>
          /\ results_dict'[w] = results_dict[w]
          /\ sub_results_dict'[w] = sub_results_dict[w]
          /\ w \in DOMAIN thisRank_parts => thisRank_parts'[w] = thisRank_parts[w]
          /\ \/ to_master'[w] = to_master[w]
             \/ to_master[w] # <<>> /\ to_master'[w] = Tail(to_master[w])
             \/ to_master'[w] = Append(to_master[w], [tag |-> "EXIT"])
          /\ \/ to_worker'[w] = to_worker[w]
             \/ to_worker[w] # <<>> /\ to_worker'[w] = Tail(to_worker[w])]_vars

\* one worker has been sent EXIT and has closed while the other still has a
\* task to start
C16_Witness ==
    /\ mpc = "loop"
    /\ \E w1, w2 \in Workers :
          /\ ExitSent(w1)
          /\ HasSentExit(w1)
          /\ wpc[w2] = "recv"
          /\ Arrived(to_worker, w2, "START")

\* the cells of the decomposition, as a set of sets of particle IDs
Cells == {nodes[ind] : ind \in DOMAIN nodes}

\* a set of consecutive integers
IsRange(S) == S = {} \/ S = Min(S)..Max(S)

\* C17: the cells decomp_nodes produces are ranges of consecutive particle
\* IDs, pairwise disjoint, and their union is {0, ..., N-1}: every particle
\* is a query point of exactly one spatial task
C17_CellsPartitionParticles ==
    mpc = "spatial" =>
        /\ \A ind \in DOMAIN nodes : IsRange(nodes[ind])
        /\ \A i, j \in DOMAIN nodes : i # j => nodes[i] \cap nodes[j] = {}
        /\ UNION Cells = 0..(conf.npart - 1)

\* C18: the number of cells created, len(nodes), is at least the number of
\* workers and a multiple of it
C18_CellCountMultipleOfWorkers ==
    mpc = "spatial" =>
        /\ Cardinality(DOMAIN nodes) >= conf.size - 1
        /\ Cardinality(DOMAIN nodes) % (conf.size - 1) = 0

\* C19: the matrix path sums the softened inverse separation over the pairs
\* i < j only, without self-pair terms, and gives the same GE as the
\* row-at-a-time path
C19_EnergyPathsAgree ==
    call_pc = "returned" =>
        /\ call_out.rij_2 = {ij \in (1..Len(call_in)) \X (1..Len(call_in)) : ij[1] < ij[2]}
        /\ RatEq(call_out.lm, call_out.hm)

\* C20: wrap_halo changes every coordinate by 0 or by exactly the box size,
\* so the wrapped coordinates taken modulo the box size are the input
C20_WrapShiftsByBox ==
    call_pc = "returned" =>
        \A i \in DOMAIN call_in.halo_poss :
            /\ call_out[i] - call_in.halo_poss[i] \in {0, call_in.boxsize}
            /\ call_out[i] % call_in.boxsize = call_in.halo_poss[i]

\* a halo across the boundary: one particle was moved by a box, one was not
C20_Witness ==
    /\ call_pc = "returned"
    /\ \E i, j \in DOMAIN call_in.halo_poss :
          /\ call_out[i] = call_in.halo_poss[i] + call_in.boxsize
          /\ call_out[j] = call_in.halo_poss[j]

\* the length of the shortest arc of the periodic box that holds all of poss
MinImageExtent(poss, boxsize) ==
    Min({Max({(p - start) % boxsize : p \in Elems(poss)}) : start \in Elems(poss)})

\* C21: a halo inside the box whose minimum-image extent is at most half the
\* box, half the box included, has after wrap_halo a largest and a smallest
\* coordinate that differ by that extent
C21_WrapBringsTogether ==
    call_pc = "returned" /\ "boxsize" \in DOMAIN call_in =>
        (2 * MinImageExtent(call_in.halo_poss, call_in.boxsize) <= call_in.boxsize
            => Max(Elems(call_out)) - Min(Elems(call_out))
                 = MinImageExtent(call_in.halo_poss, call_in.boxsize))

\* C22: the mean position stored in an emitted record is the mean of the
\* wrapped positions of the record's members taken modulo the box size, the
\* subtracted centres added back, and lies in [0, L)
C22_MeanPositionRestored ==
    \A w \in DOMAIN results_dict : \A task \in DOMAIN results_dict[w] :
        \A pID \in DOMAIN results_dict[w][task] :
            LET rec == results_dict[w][task][pID]
            IN  /\ RatEq(rec.mean_halo_pos,
                         RatMod(MeanOf(wrap_halo(PosOf(rec.pids), conf.boxsize)),
                                conf.boxsize))
                /\ rec.mean_halo_pos.num >= 0
                /\ rec.mean_halo_pos.num < conf.boxsize * rec.mean_halo_pos.den

\* the (task, component) keys of the emitted records of a dictionary
RecordKeysOf(dict) == {<<k[2], k[3]>> : k \in RecordIndex(dict)}

\* the IDs of the dictionary are 0..counter-1, each given to one key
IsDenseRange(id_dict, counter) ==
    /\ Values(id_dict) = 0..(counter - 1)
    /\ \A k1, k2 \in DOMAIN id_dict : id_dict[k1] = id_dict[k2] => k1 = k2

\* C23: the host IDs given out by rank 0 are 0..H-1, one per emitted host
\* record, none given twice and none skipped, for every order of the DONE
\* messages; likewise the subhalo IDs 0..S-1
C23_DenseIDs ==
    /\ IsDenseRange(haloID_dict, newPhaseID)
    /\ IsDenseRange(subhaloID_dict, newPhaseSubID)
    /\ mpc = "gather" =>
          /\ DOMAIN haloID_dict = RecordKeysOf(results_dict)
          /\ DOMAIN subhaloID_dict = RecordKeysOf(sub_results_dict)
          /\ newPhaseID = Cardinality(RecordIndex(results_dict))
          /\ newPhaseSubID = Cardinality(RecordIndex(sub_results_dict))

\* a run with two workers has finished with two host and two subhalo
\* records, the subhalo IDs in the opposite order of the tasks
C23_Witness ==
    /\ mpc = "gather"
    /\ conf.size = 3
    /\ newPhaseID >= 2
    /\ \E k1, k2 \in DOMAIN subhaloID_dict :
          k1[1][2] < k2[1][2] /\ subhaloID_dict[k1] > subhaloID_dict[k2]

\* column col of phase_part_haloids holds, for every particle, the ID of the
\* record of the dictionary that has the particle as a member, -2 if none
ColumnNamesRecord(col, dict, id_dict) ==
    \A p \in DOMAIN phase_part_haloids :
        LET holders == {k \in RecordIndex(dict) : p \in Members(dict, k)}
        IN  IF holders = {}
            THEN phase_part_haloids[p][col] = -2
            ELSE \A k \in holders :
                    phase_part_haloids[p][col] = id_dict[<<k[2], k[3]>>]

\* C24: when the master loop has finished, column 0 of phase_part_haloids is
\* the dense ID of the host record holding the particle and -2 where there is
\* none, column 1 the same for subhalo records; an entry set to a halo ID is
\* never overwritten by a different ID
C24_ParticleIDsNameRecords ==
    /\ [](mpc = "gather" =>
             /\ ColumnNamesRecord(0, results_dict, haloID_dict)
             /\ ColumnNamesRecord(1, sub_results_dict, subhaloID_dict))
    /\ [][\A p \in DOMAIN phase_part_haloids : \A col \in {0, 1} :
             phase_part_haloids[p][col] # -2 /\ p \in DOMAIN phase_part_haloids'
                => phase_part_haloids'[p][col] = phase_part_haloids[p][col]]_vars

\* a run has finished in which a particle is in a host and in a subhalo
\* record and another particle is in no record
C24_Witness ==
    /\ mpc = "gather"
    /\ \E p \in DOMAIN phase_part_haloids :
          phase_part_haloids[p][0] >= 0 /\ phase_part_haloids[p][1] >= 0
    /\ \E p \in DOMAIN phase_part_haloids :
          phase_part_haloids[p][0] = -2 /\ phase_part_haloids[p][1] = -2

\* the dense host ID of the host record that holds the members of subhalo
\* record k
HostOf(k) == phase_part_haloids[Min(Members(sub_results_dict, k))][0]

\* C25: after the aggregation on rank 0 nsubhalos[h] is the number of emitted
\* subhalo records whose host ID is h, for every host ID h
C25_OccupancyCountsSubhalos ==
    mpc = "gather" =>
        \A h \in 0..(newPhaseID - 1) :
            nsubhalos[h] = Cardinality({k \in RecordIndex(sub_results_dict) : HostOf(k) = h})

\* the kinds of the tasks waiting on rank 0 or on their way to a worker
TaskKindsAbout ==
    {t[1] : t \in halo_tasks}
        \cup UNION {{to_worker[w][j].task[1] :
                        j \in {i \in DOMAIN to_worker[w] : to_worker[w][i].tag = "START"}} :
                    w \in Workers}

\* column 1 of a per-particle ID array holds the sentinel everywhere
SubColumnUnset(arr) == \A p \in DOMAIN arr : arr[p][1] = -2

\* the spatial subhalo tasks this step puts in the queue
NewSubhaloTasks == {t \in halo_tasks' \ halo_tasks : t[1] = 2}

\* C26: with findsubs off no task of kind 2 or 3 is created or dispatched,
\* the subhalo ID counters stay 0 and column 1 of both per-particle ID arrays
\* keeps -2; with findsubs on a kind 2 task is created for each host record
\* rank 0 takes from a DONE message, with the members of the record
C26_FindsubsGatesSubhaloTasks ==
    /\ [](mpc \in {"loop", "gather"} /\ ~conf.findsubs =>
             /\ TaskKindsAbout \subseteq {1}
             /\ subhalo_pids = EmptyMap /\ sub_vlcoeffs = EmptyMap
             /\ newPhaseSubID = 0 /\ newSpatialSubID = 0
             /\ SubColumnUnset(phase_part_haloids)
             /\ SubColumnUnset(spatial_part_haloids)
             /\ \A w \in Workers : sub_results_dict[w] = EmptyMap)
    /\ [][mpc = "loop" /\ conf.findsubs =>
             /\ Cardinality(NewSubhaloTasks) = newPhaseID' - newPhaseID
             /\ \A t \in NewSubhaloTasks :
                   \E k \in DOMAIN haloID_dict' \ DOMAIN haloID_dict :
                       /\ t[2] - newtaskID = haloID_dict'[k] - newPhaseID
                       /\ Elems(subhalo_pids'[t])
                            = {p \in DOMAIN phase_part_haloids' :
                                  phase_part_haloids'[p][0] = haloID_dict'[k]}]_vars

\* a run without subhalo finding has finished with two host records
C26_Witness ==
    /\ mpc = "gather" /\ ~conf.findsubs /\ newPhaseID >= 2

\* the passes of the refinement loops that have run
LoopPasses == {t \in seen_passes : t.what = "pass"}

\* C27: the k-th pass of the refinement loop on a candidate that started at
\* alpha_0 uses alpha_0 * (1 - delta)^k, the first pass of the loop the
\* coefficient decremented once (k = 1)
C27_AlphaScalesGeometrically ==
    \A t \in LoopPasses :
        t.alpha * AlphaOne ^ t.k = t.vlcoeff * (AlphaOne - conf.decrement) ^ t.k

\* the phase-space passes that have run, of whole tasks and of the loops
AllPasses == {t \in seen_passes : t.what \in {"first", "pass"}}

\* C28: every phase-space pass, of the initial tasks and of the extra tasks,
\* runs with a coefficient between min_alpha_v and ini_alpha_v, never below
\* the minimum and never zero or negative
C28_AlphaWithinBounds ==
    \A t \in AllPasses :
        /\ conf.min_vlcoeff <= t.alpha
        /\ t.alpha <= conf.ini_vlcoeff
        /\ t.alpha > 0

\* the evaluations of the loop condition on an unbound component of ten or
\* more particles
UnboundChecks ==
    {t \in seen_passes :
        t.what = "check" /\ t.npart >= MinPart /\ ~RatLeq(t.KE, t.GE)}

\* the component of the evaluation was emitted as a record that is not real
EmittedNotReal(t) ==
    \E w \in Workers :
        /\ t.task \in DOMAIN RecordsOfKind(t.task[1])[w]
        /\ t.pID \in DOMAIN RecordsOfKind(t.task[1])[w][t.task]
        /\ ~RecordsOfKind(t.task[1])[w][t.task][t.pID].real

\* C29: an unbound component of ten or more particles is refined again if
\* and only if its coefficient is above the configured min_alpha_v; at or
\* below it the component is emitted with real = false and no further pass
\* is run, for every min_alpha_v
C29_RefinedWhileAboveMinimum ==
    \A t \in UnboundChecks :
        /\ t.again <=> t.alpha > conf.min_vlcoeff
        /\ t.alpha <= conf.min_vlcoeff => EmittedNotReal(t)

\* the first passes of the tasks that have run: one per task, with its size
TasksRun == {t \in seen_passes : t.what = "first"}

\* the DONE messages of phase-space tasks on their way to rank 0
DonesInFlight ==
    UNION {{to_master[w][j] :
              j \in {i \in DOMAIN to_master[w] :
                        /\ to_master[w][i].tag = "DONE"
                        /\ to_master[w][i].task[1] \in {1, 3}}} : w \in Workers}

\* the phase-space tasks of a kind rank 0 puts in the queue in this step
NewTasks(kind) == {t \in halo_tasks' \ halo_tasks : t[1] = kind}

\* the phase-space task whose DONE message rank 0 takes in this step
Finished(task) ==
    \E w \in Workers :
        /\ to_master[w] # <<>>
        /\ to_master'[w] = Tail(to_master[w])
        /\ Head(to_master[w]).tag = "DONE"
        /\ Head(to_master[w]).task = task

\* C30: with a positive decrement the refinement ends: the coefficient falls
\* by the decrement with every pass of the loop and no pass starts below the
\* floor, so a loop runs a bounded number of passes; every extra task has
\* strictly fewer particles than the task it comes from; and the tasks that
\* descend from the stitched halos are no more than the particles allow (the
\* tasks of 10 or more particles, and the tasks of any size)
C30_RefinementTerminates ==
    /\ [](mpc \in {"loop", "gather"} =>
             /\ conf.decrement > 0
             /\ \A t \in LoopPasses :
                   /\ t.alpha = t.vlcoeff - t.k * conf.decrement
                   /\ t.alpha + conf.decrement >= RefineFloor
                   /\ t.k <= (conf.ini_vlcoeff - RefineFloor) \div conf.decrement + 1
             /\ \A msg \in DonesInFlight : \A key \in DOMAIN msg.extra_halo_pids :
                   \E t \in TasksRun :
                       /\ t.task = msg.task
                       /\ Len(msg.extra_halo_pids[key]) < t.npart
                       /\ Len(msg.extra_halo_pids[key]) >= MinPart
             /\ \A kind \in {1, 3} :
                   /\ Cardinality({t.task : t \in {r \in TasksRun :
                                        r.task[1] = kind /\ r.npart >= MinPart}})
                         <= conf.npart \div MinPart
                   /\ Cardinality({t.task : t \in {r \in TasksRun : r.task[1] = kind}})
                         <= conf.npart)
    /\ [][mpc = "loop" =>
             /\ NewTasks(1) # {} =>
                   \E t \in TasksRun : t.task[1] = 1 /\ Finished(t.task)
             /\ \A t \in TasksRun :
                   /\ t.task[1] = 1 /\ Finished(t.task) =>
                         \A new \in NewTasks(1) : Len(halo_pids'[new]) < t.npart
                   /\ t.task[1] = 3 /\ Finished(t.task) =>
                         \A new \in NewTasks(3) : Len(subhalo_pids'[new]) < t.npart]_vars

\* an extra task has been run whose loop of origin ran two passes
C30_Witness ==
    /\ \E t \in TasksRun : t.vlcoeff < conf.ini_vlcoeff /\ t.task[1] = 1
    /\ \E t \in LoopPasses : t.k = 2

-----------------------------------------------------------------------------
(* Properties of the spatial stage as a whole                               *)

\* the cells a worker ran, read off the particles it recorded
CellsOf(w) == {c \in DOMAIN nodes : nodes[c] # {} /\ nodes[c] \subseteq thisRank_parts[w]}

\* the halos spatial_node_task produced on a worker
ProducedOn(w) ==
    UNION {Values(spatial_node_task(c,
                      [k \in DOMAIN SortedSeq(nodes[c]) |->
                          conf.pos[SortedSeq(nodes[c])[k] + 1]],
                      conf.pos, conf.linkl, conf.npart, conf.boxsize)) : c \in CellsOf(w)}

\* the stitched halos of a worker that its filter dropped
DroppedBy(w) ==
    {parts \in connected_components(to_graph(ProducedOn(w))) :
        ~KeptByRank(parts, thisRank_parts[w])}

\* the connected components of ten or more particles of the linking graph
\* over all particles
GlobalHalos == {g \in SpatialGroups(conf.pos, conf.linkl) : Cardinality(g) >= MinPart}

\* the run started at the spatial search
FromStart == "ncells" \in DOMAIN conf

\* the halos combine_tasks returns are the large components of the global
\* linking graph
StitchedAreGlobal ==
    FromStart /\ mpc = "combine" /\ ct_pc = "done" =>
        {Elems(halo_pids[k]) : k \in DOMAIN halo_pids} = GlobalHalos

\* what a worker dropped shares no particle with a halo of another worker
DroppedAreAlone ==
    FromStart /\ mpc = "spatial" /\ (\A w \in Workers : wpc[w] = "sp_closed") =>
        \A w1, w2 \in Workers : w1 # w2 =>
            \A d \in DroppedBy(w1) : \A h \in ProducedOn(w2) : d \cap h = {}

\* C31: for every assignment of cells to workers the halos combine_tasks
\* returns are the connected components of ten or more particles of the
\* global linking graph, and a component dropped by a worker's filter shares
\* no particle with a halo produced on another worker
C31_SpatialStageIsGlobalFOF == StitchedAreGlobal /\ DroppedAreAlone

-----------------------------------------------------------------------------
(* Properties of the linked IDs during the first loop                      *)

\* the IDs the first loop has opened so far
OpenedIDs == DOMAIN fof.linked_halos_dict

InFirstPass == fof_pc = "first" /\ "final_halo_ids" \in DOMAIN fof

FinalAtMostOwn == \A c \in OpenedIDs : fof.final_halo_ids[c] <= c

ClassHasMinimumAsFinal ==
    \A c \in OpenedIDs : \A d \in fof.linked_halos_dict[c] :
        fof.final_halo_ids[d] = Min(fof.linked_halos_dict[c])

ClassesPartitionOpened ==
    \A c \in OpenedIDs :
        /\ c \in fof.linked_halos_dict[c]
        /\ fof.linked_halos_dict[c] \subseteq OpenedIDs
        /\ \A d \in fof.linked_halos_dict[c] :
                fof.linked_halos_dict[d] = fof.linked_halos_dict[c]

FinalNeverIncreases ==
    InFirstPass =>
        \A c \in OpenedIDs : fof'.final_halo_ids[c] <= fof.final_halo_ids[c]

\* C32: while the first loop runs, the final ID of every opened ID is at most
\* the ID itself and never grows from one neighbour list to the next, the IDs
\* of one linked class all have the smallest ID of the class as their final
\* ID, and the linked classes partition the opened IDs
C32_LinkedClassesAreUnionFind ==
    /\ [](InFirstPass =>
            FinalAtMostOwn /\ ClassHasMinimumAsFinal /\ ClassesPartitionOpened)
    /\ [][FinalNeverIncreases]_vars

\* three IDs have been linked into one class, whose largest ID was given a
\* smaller final ID
C32_Witness ==
    /\ InFirstPass
    /\ ~fof.raised
    /\ \E c \in OpenedIDs :
            /\ Cardinality(fof.linked_halos_dict[c]) >= 3
            /\ fof.final_halo_ids[Max(fof.linked_halos_dict[c])] < Max(fof.linked_halos_dict[c])

-----------------------------------------------------------------------------
(* Properties of the task queue of the phase-space loop                    *)

\* the host records whose DONE rank 0 handles in this step
HostRecordsHandled ==
    {k \in RecordIndex(results_dict) :
        <<k[2], k[3]>> \in DOMAIN haloID_dict' \ DOMAIN haloID_dict}

\* the host records whose members a new spatial subhalo task carries
SearchedBy(t) ==
    {k \in HostRecordsHandled : RecordAt(results_dict, k).pids = subhalo_pids'[t]}

HoldData(t) ==
    {d \in {"halo_pids", "vlcoeffs", "subhalo_pids", "sub_vlcoeffs"} :
        t \in DOMAIN MasterLocals[d]}

\* the dictionaries a task of the kind is sent from
DataOfKind(kind) ==
    IF kind = 1 THEN {"halo_pids", "vlcoeffs"}
    ELSE IF kind = 2 THEN {"subhalo_pids"}
    ELSE {"subhalo_pids", "sub_vlcoeffs"}

\* the START messages on their way to the workers
StartsInFlight ==
    UNION {{to_worker[w][j] :
                j \in {i \in DOMAIN to_worker[w] : to_worker[w][i].tag = "START"}} :
           w \in Workers}

\* the tasks this step takes from the queue
TakenTasks == halo_tasks \ halo_tasks'

\* C34: the data of a task leave the dictionaries of rank 0 in the step that
\* sends the task with START, every task in halo_tasks has its data in the
\* dictionaries its kind is sent from, and when the loop ends halo_pids,
\* vlcoeffs, subhalo_pids and sub_vlcoeffs are empty
C34_TaskDataDrained ==
    /\ [](mpc = "loop" => \A t \in halo_tasks : HoldData(t) = DataOfKind(t[1]))
    /\ [](mpc = "gather" =>
             \A d \in {"halo_pids", "vlcoeffs", "subhalo_pids", "sub_vlcoeffs"} :
                 MasterLocals[d] = EmptyMap)
    /\ [][mpc = "loop" =>
             \A t \in TakenTasks :
                 /\ HoldData(t) = DataOfKind(t[1])
                 /\ HoldData(t)' = {}
                 /\ \E w \in Workers :
                       /\ to_worker'[w] # <<>>
                       /\ to_worker'[w][Len(to_worker'[w])].tag = "START"
                       /\ to_worker'[w][Len(to_worker'[w])].task = t
                       /\ to_worker'[w][Len(to_worker'[w])].pids
                            = (IF t[1] = 1 THEN halo_pids[t] ELSE subhalo_pids[t])]_vars

\* a spatial subhalo task is on its way to a worker, its data gone from
\* rank 0, while a phase-space subhalo task waits with its data on rank 0
C34_Witness ==
    /\ mpc = "loop"
    /\ \E s \in StartsInFlight : s.task[1] = 2 /\ HoldData(s.task) = {}
    /\ \E t \in halo_tasks : t[1] = 3 /\ HoldData(t) = DataOfKind(3)

\* where a phase-space task is: in the queue of rank 0, in a START on its way
\* to a worker, or in a DONE on its way back
PlacesOf(t) ==
    {<<"queue", 0, 0>> : q \in {t} \cap halo_tasks}
      \cup UNION {{<<"START", w, j>> : j \in {i \in DOMAIN to_worker[w] :
                        to_worker[w][i].tag = "START" /\ to_worker[w][i].task = t}} :
                  w \in Workers}
      \cup UNION {{<<"DONE", w, j>> : j \in {i \in DOMAIN to_master[w] :
                        to_master[w][i].tag = "DONE" /\ to_master[w][i].task = t}} :
                  w \in Workers}

\* the tasks of DONE messages on their way to rank 0
DoneTasks ==
    UNION {{to_master[w][j].task :
                j \in {i \in DOMAIN to_master[w] : to_master[w][i].tag = "DONE"}} :
           w \in Workers}

\* the phase-space tasks that are somewhere
LiveTasks == halo_tasks \cup {s.task : s \in StartsInFlight} \cup DoneTasks

\* the tasks worker w holds: sent to it and not yet handled by rank 0
HeldBy(w) == {t \in LiveTasks : \E pl \in PlacesOf(t) : pl[1] # "queue" /\ pl[2] = w}

\* this step appends one message to the channel to worker w: START with task t
StartsOn(w, t) ==
    /\ Len(to_worker'[w]) = Len(to_worker[w]) + 1
    /\ to_worker'[w][Len(to_worker'[w])].tag = "START"
    /\ to_worker'[w][Len(to_worker'[w])].task = t

\* C35: every phase-space task put in halo_tasks is sent with START once and
\* to one worker, rank 0 has handled a worker's DONE when it takes the
\* worker's next READY, no task ID is used twice, and when the loop ends
\* halo_tasks is empty and no task is on its way
C35_TasksRunOnce ==
    /\ [](mpc = "loop" =>
             /\ \A t \in LiveTasks : Cardinality(PlacesOf(t)) = 1 /\ t[2] < newtaskID
             /\ \A t1, t2 \in LiveTasks : t1[2] = t2[2] => t1 = t2
             /\ \A w \in Workers : Cardinality(HeldBy(w)) <= 1)
    /\ [](mpc = "gather" => LiveTasks = {})
    /\ [][mpc = "loop" /\ mpc' = "loop" =>
             /\ \A t \in halo_tasks' \ halo_tasks :
                    t[2] >= newtaskID /\ t[2] < newtaskID'
             /\ \A t \in TakenTasks :
                    /\ TakenTasks = {t}
                    /\ Cardinality({w \in Workers : StartsOn(w, t)}) = 1
                    /\ \A w \in Workers :
                          StartsOn(w, t) \/ to_worker'[w] = to_worker[w]
             /\ \A t \in LiveTasks' : t \in LiveTasks \/ t \in halo_tasks' \ halo_tasks
             /\ \A w \in Workers : TakesReady(w) => HeldBy(w) = {}]_vars

\* each of two workers holds a task, one of them done and on its way back
C35_Witness ==
    /\ mpc = "loop"
    /\ Cardinality(Workers) = 2
    /\ \A w \in Workers : Cardinality(HeldBy(w)) = 1
    /\ DoneTasks # {}

\* this step appends an EXIT to the channel to worker w
ExitsOn(w) ==
    /\ Len(to_worker'[w]) = Len(to_worker[w]) + 1
    /\ to_worker'[w][Len(to_worker'[w])].tag = "EXIT"

\* C36: in the phase-space loop EXIT is sent to a worker only when the queue
\* is empty and no other worker holds a task, and no task is added to the
\* queue once rank 0 has sent EXIT to some worker
C36_ExitOnlyWhenAllIdle ==
    [][mpc = "loop" /\ mpc' = "loop" =>
          /\ \A w \in Workers : ExitsOn(w) =>
                /\ halo_tasks = {}
                /\ \A other \in Workers \ {w} : HeldBy(other) = {}
          /\ (\E w \in Workers : ExitSent(w)) => halo_tasks' \subseteq halo_tasks]_vars

-----------------------------------------------------------------------------
(* Properties of the dispatch of cells in the spatial loop                 *)

\* where cell c is: waiting on rank 0, in a START on its way to a worker, or
\* searched by a worker
CellPlaces(c) ==
    {<<"queue", 0>> : q \in {c} \cap tasks}
      \cup UNION {{<<"START", w>> : j \in {i \in DOMAIN to_worker[w] :
                        to_worker[w][i].tag = "START" /\ to_worker[w][i].task = c}} :
                  w \in Workers}
      \cup {<<"searched", w>> : w \in {v \in Workers : c \in CellsOf(v)}}

\* the results of the cells, as worker w holds them before and after
\* combine_tasks_per_thread
ResultsOfCells(w) ==
    With([c \in CellsOf(w) |->
             spatial_node_task(c, [k \in DOMAIN SortedSeq(nodes[c]) |->
                                      conf.pos[SortedSeq(nodes[c])[k] + 1]],
                               conf.pos, conf.linkl, conf.npart, conf.boxsize)],
         LAMBDA found :
             IF wpc[w] = "sp_closed"
             THEN combine_tasks_per_thread(found, w, thisRank_parts[w])
             ELSE found)

\* C37: in the spatial loop every cell is sent to one worker and once, the
\* particles in a worker's thisRank_parts are those of the cells it was sent,
\* and the result maps of the workers together hold every cell
C37_CellsSearchedOnce ==
    /\ [](FromStart /\ mpc = "spatial" =>
             /\ \A c \in DOMAIN nodes : Cardinality(CellPlaces(c)) = 1
             /\ \A w \in Workers :
                   /\ thisRank_parts[w] = UNION {nodes[c] : c \in CellsOf(w)}
                   /\ rank_results[w] = ResultsOfCells(w)
             /\ closed_workers >= conf.size - 1 =>
                   UNION {CellsOf(w) : w \in Workers} = DOMAIN nodes)
    /\ [][FromStart /\ mpc = "spatial" =>
             /\ tasks' \subseteq tasks
             /\ \A c \in tasks \ tasks' :
                   /\ tasks \ tasks' = {c}
                   /\ Cardinality({w \in Workers : StartsOn(w, c)}) = 1
                   /\ \A w \in Workers : StartsOn(w, c) \/ to_worker'[w] = to_worker[w]]_vars

\* the spatial loop has ended with the cells shared between two workers
C37_Witness ==
    /\ FromStart /\ mpc = "spatial"
    /\ closed_workers >= conf.size - 1
    /\ Cardinality(DOMAIN nodes) >= 3
    /\ \A w \in Workers : CellsOf(w) # {}
    /\ Cardinality(Workers) = 2

-----------------------------------------------------------------------------
(* Properties of the sizes of the phase-space tasks                        *)

\* the numbers of particles of the tasks of a kind that wait on rank 0 or
\* are on their way to a worker
TaskSizes(kind) ==
    {Len(MasterLocals[IF kind = 1 THEN "halo_pids" ELSE "subhalo_pids"][t]) :
        t \in {q \in halo_tasks : q[1] = kind}}
      \cup {Len(s.pids) : s \in {r \in StartsInFlight : r.task[1] = kind}}

\* every host task and every phase-space subhalo task has 10 or more particles
C38_RefinementTasksAtLeastTen ==
    mpc = "loop" => \A n \in TaskSizes(1) \cup TaskSizes(3) : n >= MinPart

\* the phase-space subhalo tasks that ran on fewer than 10 particles
SmallSubTasksRun == {t.task : t \in {r \in TasksRun : r.task[1] = 3 /\ r.npart < MinPart}}

\* C38: every host task (kind 1) carries 10 or more particles, and so does
\* every phase-space subhalo task (kind 3) made from an extra candidate; one
\* made from a spatial subhalo carries 2 or more, and when it carries fewer
\* than 10 the worker returns no record and no extra candidate for it
C38_SmallTasksOnlyFromSubhaloSearch ==
    /\ [](mpc = "loop" =>
             /\ \A n \in TaskSizes(1) : n >= MinPart
             /\ \A n \in TaskSizes(3) : n >= 2
             /\ \A w \in Workers : \A t \in SmallSubTasksRun \cap DOMAIN sub_results_dict[w] :
                    sub_results_dict[w][t] = EmptyMap
             /\ \A w \in Workers : \A j \in DOMAIN to_master[w] :
                    (to_master[w][j].tag = "DONE" /\ to_master[w][j].task \in SmallSubTasksRun)
                        => /\ to_master[w][j].post_halo_pids = EmptyMap
                           /\ to_master[w][j].extra_halo_pids = EmptyMap)
    /\ [][mpc = "loop" /\ mpc' = "loop" =>
             \A t \in NewTasks(3) :
                 Len(subhalo_pids'[t]) < MinPart =>
                     \E w \in Workers : /\ Arrived(to_master, w, "DONE")
                                        /\ Head(to_master[w]).task[1] = 2
                                        /\ to_master'[w] = Tail(to_master[w])]_vars

\* a phase-space subhalo task of fewer than 10 particles has run and its
\* DONE is on its way to rank 0
C38_Witness ==
    /\ mpc = "loop"
    /\ \E w \in Workers : \E j \in DOMAIN to_master[w] :
          /\ to_master[w][j].tag = "DONE"
          /\ to_master[w][j].task \in SmallSubTasksRun

-----------------------------------------------------------------------------
(* Properties of one call of get_real_host_halos or get_real_sub_halos     *)

\* worker w runs a phase-space task in this step
RunsRefinement(w) ==
    /\ mpc = "loop"
    /\ Arrived(to_worker, w, "START")
    /\ Head(to_worker[w]).task[1] \in {1, 3}
    /\ to_worker'[w] = Tail(to_worker[w])

\* the DONE message worker w sends in the step in which it runs a task
DoneSent(w) == to_master'[w][Len(to_master'[w]) - 1]

\* the member sets of a dictionary of particle ID arrays, by key
MembersOf(d) == [k \in DOMAIN d |-> Elems(d[k])]

PairwiseDisjoint(f) == \A k1, k2 \in DOMAIN f : k1 # k2 => f[k1] \cap f[k2] = {}

\* the loop's condition was evaluated on a component of these energies and
\* this size in the task
Continued(task, comp) ==
    \E t \in seen_passes' :
        /\ t.what = "check" /\ t.task = task
        /\ t.npart = Cardinality(comp.pids) /\ t.KE = comp.KE /\ t.GE = comp.GE

\* the components of 10 or more particles found inside the task's particles
FoundIn(thisTask) ==
    {comp \in seen_comps' :
        /\ comp.kind = thisTask.task[1]
        /\ comp.pids \subseteq Elems(thisTask.pids)
        /\ comp.pids # Elems(thisTask.pids)}

\* C39: in one call of get_real_host_halos or get_real_sub_halos the member
\* sets of the records and of the extra candidates are pairwise disjoint
\* subsets of the task's particles, results and pid_results have the same
\* keys, and every component of 10 or more particles a pass finds is handed
\* on as an extra candidate or goes on to the loop's condition
C39_CallKeepsEveryComponent ==
    [][\A w \in Workers : RunsRefinement(w) =>
          LET thisTask == Head(to_worker[w])
              sent == DoneSent(w)
              recs == MembersOf(sent.post_halo_pids)
              extras == MembersOf(sent.extra_halo_pids)
              kept == IF thisTask.task[1] = 1
                      THEN results_dict'[w][thisTask.task]
                      ELSE sub_results_dict'[w][thisTask.task]
          IN  /\ sent.tag = "DONE" /\ sent.task = thisTask.task
              /\ PairwiseDisjoint(recs) /\ PairwiseDisjoint(extras)
              /\ \A k1 \in DOMAIN recs : \A k2 \in DOMAIN extras : recs[k1] \cap extras[k2] = {}
              /\ \A k \in DOMAIN recs : recs[k] \subseteq Elems(thisTask.pids)
              /\ \A k \in DOMAIN extras : extras[k] \subseteq Elems(thisTask.pids)
              /\ DOMAIN kept = DOMAIN sent.post_halo_pids
              /\ \A k \in DOMAIN kept : kept[k].pids = sent.post_halo_pids[k]
              /\ \A comp \in FoundIn(thisTask) :
                    \/ \E k \in DOMAIN extras : extras[k] = comp.pids
                    \/ Continued(thisTask.task, comp)]_vars

\* a call has returned a record and an extra candidate together
C39_Witness ==
    /\ mpc = "loop"
    /\ \E w \in Workers : \E j \in DOMAIN to_master[w] :
          /\ to_master[w][j].tag = "DONE"
          /\ to_master[w][j].task[1] \in {1, 3}
          /\ to_master[w][j].post_halo_pids # EmptyMap
          /\ to_master[w][j].extra_halo_pids # EmptyMap

-----------------------------------------------------------------------------
(* find_subhalos and find_phase_space_halos on the same neighbour lists    *)

\* every neighbour list holds its query particle, and q is in the list of p
\* whenever p is in the list of q
SymmetricWithSelf(in) ==
    LET lists == QueryOf(in)
    IN  /\ \A i \in DOMAIN lists : in.cell[i] \in lists[i]
        /\ \A i, j \in DOMAIN lists : in.cell[j] \in lists[i] => in.cell[i] \in lists[j]

\* the other of the two functions
OtherKind(kind) ==
    IF kind = "find_subhalos" THEN "find_phase_space_halos" ELSE "find_subhalos"

\* C40: on the same neighbour lists, each holding its query particle and
\* symmetric, find_subhalos and find_phase_space_halos return the same label
\* for every particle and the same membership dictionary
C40_SubhaloAndPhaseSpaceAgree ==
    (fof_pc = "done" /\ fof_in.kind # "find_halos" /\ SymmetricWithSelf(fof_in)) =>
        LET other == FOFRun(OtherKind(fof_in.kind), NPartOf(fof_in), QueryOf(fof_in))
        IN  /\ other.part_haloids = fof.part_haloids
            /\ other.assigned_parts = fof.assigned_parts
            /\ other.raised = fof.raised

\* a call has returned with a lone particle labelled -2 beside a halo that
\* was opened under two IDs
C40_Witness ==
    /\ fof_pc = "done" /\ fof_in.kind = "find_subhalos" /\ ~fof.raised
    /\ SymmetricWithSelf(fof_in)
    /\ \E p \in DOMAIN fof.part_haloids : fof.part_haloids[p] = -2
    /\ \E c \in OpenedIDs : fof.final_halo_ids[c] < c


====
